---- MODULE Spec2Model ----
(***************************************************************************)
(* Model of the Camb.ai n8n node: the request client (cambAiApiRequest),   *)
(* the task poller (pollForResult) and the per-item pipelines of           *)
(* CambAi.execute.                                                         *)
(*                                                                         *)
(* Conventions.  A JavaScript string is a sequence of pieces, so that      *)
(* concatenation (template strings) is \o and '' is <<>>.  A JavaScript    *)
(* object is a function from key names to values; a missing key is a key   *)
(* outside the DOMAIN (reading it gives undefined).  An optional value is  *)
(* a sequence of length 0 or 1.                                            *)
(*                                                                         *)
(* One action is one resumption of the async function execute: it takes    *)
(* the outcome of the await the code is blocked on and runs the code up to *)
(* the next await (the next transport request or the next sleep).  The     *)
(* resumption that ends an item also advances the loop or ends execute;    *)
(* the head of an iteration (parameters read, first request issued) is a   *)
(* step of its own.                                                        *)
(***************************************************************************)
EXTENDS Integers, Sequences, FiniteSets, TLC

VARIABLES
    resource,        \* getNodeParameter('resource', 0)
    operation,       \* getNodeParameter('operation', 0)
    continueOnFail,  \* this.continueOnFail()
    nItems,          \* items.length
    i,               \* the loop index of execute
    pc,              \* the await execute is blocked on
    trace,           \* transport requests and sleeps of the current item, in order
    calls,           \* invocations of cambAiApiRequest for the current item
    last,            \* the most recently settled request: <<[role, outcome]>>
    pending,         \* status answers read for the current item that left the task open
    taskId,          \* the local taskId of the current item
    envelope,        \* what pollForResult returned for the current item
    urls,            \* the artifact URLs read from the result lookup
    binaries,        \* the artifacts downloaded so far for the current item
    itemError,       \* the error caught for the current item
    returnData,      \* the output records
    thrown,          \* the error execute failed with
    params,          \* the parameters the branch read for the current item
    wav              \* the calls of generateWavHeader for the current item

vars == <<resource, operation, continueOnFail, nItems, i, pc, trace, calls, last,
          pending, taskId, envelope, urls, binaries, itemError, returnData, thrown,
          params, wav>>

-----------------------------------------------------------------------------
(* Bounds of the model *)

MaxItems == 2
MaxPolls == 3

-----------------------------------------------------------------------------
(* JavaScript objects and strings *)

EmptyObject == <<>>

Has(o, k) == k \in DOMAIN o

\* Object.assign(a, b)
Assign(a, b) == [k \in DOMAIN a \cup DOMAIN b |-> IF k \in DOMAIN b THEN b[k] ELSE a[k]]

\* the object without the keys ks (delete, rest destructuring)
Without(o, ks) == [k \in DOMAIN o \ ks |-> o[k]]

\* x.k is present and truthy, for string-valued keys ('' is falsy)
Truthy(o, k) == Has(o, k) /\ o[k] # <<>>

\* err.statusCode === n
HasStatusCode(err, n) == Has(err, "statusCode") /\ err.statusCode = n

UpperChar(c) ==
    CASE c = "a" -> "A" [] c = "b" -> "B" [] c = "c" -> "C" [] c = "d" -> "D"
      [] c = "e" -> "E" [] c = "f" -> "F" [] c = "g" -> "G" [] c = "h" -> "H"
      [] c = "i" -> "I" [] c = "j" -> "J" [] c = "k" -> "K" [] c = "l" -> "L"
      [] c = "m" -> "M" [] c = "n" -> "N" [] c = "o" -> "O" [] c = "p" -> "P"
      [] c = "q" -> "Q" [] c = "r" -> "R" [] c = "s" -> "S" [] c = "t" -> "T"
      [] c = "u" -> "U" [] c = "v" -> "V" [] c = "w" -> "W" [] c = "x" -> "X"
      [] c = "y" -> "Y" [] c = "z" -> "Z" [] OTHER -> c

\* String.prototype.toUpperCase, character by character
toUpperCase(s) == [k \in 1..Len(s) |-> UpperChar(s[k])]

SUCCESS == <<"S","U","C","C","E","S","S">>
ERROR == <<"E","R","R","O","R">>
FAILED == <<"F","A","I","L","E","D">>
TIMEOUT == <<"T","I","M","E","O","U","T">>
PAYMENT_REQUIRED == <<"P","A","Y","M","E","N","T","_","R","E","Q","U","I","R","E","D">>
PENDING == <<"P","E","N","D","I","N","G">>

-----------------------------------------------------------------------------
(* The request client: cambAiApiRequest *)

BASE_URL == <<"https://client.camb.ai/apis">>

\* new NodeApiError(this.getNode(), error, options): the error class of
\* n8n-workflow.  It keeps the original error as errorResponse and takes the
\* message of the options when there is one.  It has no statusCode property.
NodeApiError(error, options) ==
    [name |-> "NodeApiError",
     errorResponse |-> error,
     message |-> IF Has(options, "message") THEN options.message
                 ELSE IF Has(error, "message") THEN error.message
                 ELSE <<"UNKNOWN ERROR">>]

\* new Error(message)
Error(message) == [name |-> "Error", message |-> message]

\* new NodeOperationError(this.getNode(), message, { itemIndex })
NodeOperationError(message, itemIndex) ==
    [name |-> "NodeOperationError", message |-> message, itemIndex |-> itemIndex]

\* formData instanceof FormData
InstanceOfFormData(value) == value.form = "FormData"

\* cambAiApiRequest appending the target to the fixed base whenever the base
\* option is not the empty string
cambAiApiRequestCall_FixedBaseOnly(method, endpoint, body, qs, options) ==
    LET baseURL == IF Has(options, "baseURL") THEN options.baseURL ELSE BASE_URL
        url == IF baseURL = <<>> THEN endpoint ELSE BASE_URL \o endpoint
        r0 == [method |-> method, url |-> url, json |-> TRUE]
        r1 == IF Cardinality(DOMAIN body) > 0 THEN Assign(r0, [body |-> body]) ELSE r0
        r2 == IF Cardinality(DOMAIN qs) > 0 THEN Assign(r1, [qs |-> qs]) ELSE r1
        r3 == Assign(r2, Without(options, {"baseURL", "formData"}))
        r4 == IF Has(options, "formData") /\ InstanceOfFormData(options.formData)
              THEN Assign(r3, [json |-> FALSE, body |-> options.formData])
              ELSE r3
    IN  [transport |-> IF baseURL = <<>> THEN "httpRequest"
                       ELSE "httpRequestWithAuthentication",
         credential |-> IF baseURL = <<>> THEN <<>> ELSE <<"cambAiApi">>,
         request |-> r4]

\* cambAiApiRequest letting its own defaults win over the caller's options
cambAiApiRequestCall_DefaultsWin(method, endpoint, body, qs, options) ==
    LET baseURL == IF Has(options, "baseURL") THEN options.baseURL ELSE BASE_URL
        url == IF baseURL = <<>> THEN endpoint ELSE baseURL \o endpoint
        r0 == [method |-> method, url |-> url, json |-> TRUE]
        r1 == IF Cardinality(DOMAIN body) > 0 THEN Assign(r0, [body |-> body]) ELSE r0
        r2 == IF Cardinality(DOMAIN qs) > 0 THEN Assign(r1, [qs |-> qs]) ELSE r1
        r3 == Assign(Without(options, {"baseURL", "formData"}), r2)
        r4 == IF Has(options, "formData") /\ InstanceOfFormData(options.formData)
              THEN Assign(r3, [json |-> FALSE, body |-> options.formData])
              ELSE r3
    IN  [transport |-> IF baseURL = <<>> THEN "httpRequest"
                       ELSE "httpRequestWithAuthentication",
         credential |-> IF baseURL = <<>> THEN <<>> ELSE <<"cambAiApi">>,
         request |-> r4]

\* cambAiApiRequest setting the form as body before it applies the caller's
\* options
cambAiApiRequestCall_FormBeforeOptions(method, endpoint, body, qs, options) ==
    LET baseURL == IF Has(options, "baseURL") THEN options.baseURL ELSE BASE_URL
        url == IF baseURL = <<>> THEN endpoint ELSE baseURL \o endpoint
        r0 == [method |-> method, url |-> url, json |-> TRUE]
        r1 == IF Cardinality(DOMAIN body) > 0 THEN Assign(r0, [body |-> body]) ELSE r0
        r2 == IF Cardinality(DOMAIN qs) > 0 THEN Assign(r1, [qs |-> qs]) ELSE r1
        r3 == IF Has(options, "formData") /\ InstanceOfFormData(options.formData)
              THEN Assign(r2, [json |-> FALSE, body |-> options.formData])
              ELSE r2
        r4 == Assign(r3, Without(options, {"baseURL", "formData"}))
    IN  [transport |-> IF baseURL = <<>> THEN "httpRequest"
                       ELSE "httpRequestWithAuthentication",
         credential |-> IF baseURL = <<>> THEN <<>> ELSE <<"cambAiApi">>,
         request |-> r4]

\* cambAiApiRequest sending every request, also one to an absolute URL, through
\* the authenticated transport
cambAiApiRequestCall_AlwaysAuthenticated(method, endpoint, body, qs, options) ==
    LET baseURL == IF Has(options, "baseURL") THEN options.baseURL ELSE BASE_URL
        url == IF baseURL = <<>> THEN endpoint ELSE baseURL \o endpoint
        r0 == [method |-> method, url |-> url, json |-> TRUE]
        r1 == IF Cardinality(DOMAIN body) > 0 THEN Assign(r0, [body |-> body]) ELSE r0
        r2 == IF Cardinality(DOMAIN qs) > 0 THEN Assign(r1, [qs |-> qs]) ELSE r1
        r3 == Assign(r2, Without(options, {"baseURL", "formData"}))
        r4 == IF Has(options, "formData") /\ InstanceOfFormData(options.formData)
              THEN Assign(r3, [json |-> FALSE, body |-> options.formData])
              ELSE r3
    IN  [transport |-> "httpRequestWithAuthentication",
         credential |-> <<"cambAiApi">>,
         request |-> r4]

\* cambAiApiRequestArguments with the rest destructuring taking formData out
\* of the caller's options
cambAiApiRequestArguments_FormConsumed(body, qs, options) ==
    [body |-> body, qs |-> qs, options |-> Without(options, {"baseURL", "formData"})]

\* the objects the caller passed as body, qs and options, as cambAiApiRequest
\* leaves them: delete options.baseURL is its one write to them
cambAiApiRequestArguments(body, qs, options) ==
    [body |-> body, qs |-> qs, options |-> Without(options, {"baseURL"})]

\* cambAiApiRequest up to its await: the transport it calls and the request
\* options it hands to it.
cambAiApiRequestCall(method, endpoint, body, qs, options) ==
    LET baseURL == IF Has(options, "baseURL") THEN options.baseURL ELSE BASE_URL
        url == IF baseURL = <<>> THEN endpoint ELSE baseURL \o endpoint
        r0 == [method |-> method, url |-> url, json |-> TRUE]
        r1 == IF Cardinality(DOMAIN body) > 0 THEN Assign(r0, [body |-> body]) ELSE r0
        r2 == IF Cardinality(DOMAIN qs) > 0 THEN Assign(r1, [qs |-> qs]) ELSE r1
        restOptions == Without(options, {"baseURL", "formData"})
        r3 == Assign(r2, restOptions)
        r4 == IF Has(options, "formData") /\ InstanceOfFormData(options.formData)
              THEN Assign(r3, [json |-> FALSE, body |-> options.formData])
              ELSE r3
    IN  [transport |-> IF baseURL = <<>> THEN "httpRequest"
                       ELSE "httpRequestWithAuthentication",
         credential |-> IF baseURL = <<>> THEN <<>> ELSE <<"cambAiApi">>,
         request |-> r4]

\* cambAiApiRequest sending the request a second time when the transport
\* answered 500, and failing as before when that fails again
cambAiApiRequestSettle_Retry5xx(req, outcome) ==
    IF outcome.ok
    THEN [threw |-> FALSE, value |-> outcome.response, retried |-> <<>>]
    ELSE [threw |-> TRUE,
          retried |-> IF HasStatusCode(outcome.error, 500) THEN <<req>> ELSE <<>>,
          error |-> NodeApiError(outcome.error, EmptyObject)]

\* cambAiApiRequest sending the request a second time when it was rate limited
cambAiApiRequestSettle_Retry429(req, outcome) ==
    IF outcome.ok
    THEN [threw |-> FALSE, value |-> outcome.response, retried |-> <<>>]
    ELSE [threw |-> TRUE,
          retried |-> IF HasStatusCode(outcome.error, 429) THEN <<req>> ELSE <<>>,
          error |-> NodeApiError(outcome.error, EmptyObject)]

\* cambAiApiRequest building the bad-request message from err.message alone,
\* without the 'Invalid parameters' fallback
cambAiApiRequestSettle_NoFallback(req, outcome) ==
    IF outcome.ok
    THEN [threw |-> FALSE, value |-> outcome.response, retried |-> <<>>]
    ELSE LET err == outcome.error
         IN  [threw |-> TRUE,
              retried |-> <<>>,
              error |->
                IF HasStatusCode(err, 401)
                THEN NodeApiError(err, [message |->
                       <<"Invalid API key. Please check your Camb.ai credentials.">>])
                ELSE IF HasStatusCode(err, 429)
                THEN NodeApiError(err, [message |->
                       <<"Rate limit exceeded. Please wait before making more requests.">>])
                ELSE IF HasStatusCode(err, 400)
                THEN NodeApiError(err, [message |->
                       <<"Bad request: ">> \o (IF Has(err, "message") THEN err.message
                                               ELSE <<"undefined">>)])
                ELSE NodeApiError(err, EmptyObject)]

\* cambAiApiRequest from its await on: outcome is what the transport did with
\* the request, [ok |-> TRUE, response] or [ok |-> FALSE, error].  The result
\* says whether the call returned or threw, and which transport requests it
\* issued besides the first (retried): the catch block issues none.
cambAiApiRequestSettle(req, outcome) ==
    IF outcome.ok
    THEN [threw |-> FALSE, value |-> outcome.response, retried |-> <<>>]
    ELSE LET err == outcome.error
         IN  [threw |-> TRUE,
              retried |-> <<>>,
              error |->
                IF HasStatusCode(err, 401)
                THEN NodeApiError(err, [message |->
                       <<"Invalid API key. Please check your Camb.ai credentials.">>])
                ELSE IF HasStatusCode(err, 429)
                THEN NodeApiError(err, [message |->
                       <<"Rate limit exceeded. Please wait before making more requests.">>])
                ELSE IF HasStatusCode(err, 400)
                THEN NodeApiError(err, [message |->
                       <<"Bad request: ">> \o (IF Truthy(err, "message") THEN err.message
                                               ELSE <<"Invalid parameters">>)])
                ELSE NodeApiError(err, EmptyObject)]

-----------------------------------------------------------------------------
(* The task poller: pollForResult *)

DefaultInterval == 3000

\* IsNotFound with the test widened to every error but an authentication
\* failure
IsNotFound_AllButAuth(error) ==
    ~(Has(error, "errorResponse") /\ HasStatusCode(error.errorResponse, 401))

\* the catch block's test for "the task might not be ready yet"
IsNotFound(error) == HasStatusCode(error, 404)

\* StatusOf comparing the status as it was spelled
StatusOf_CaseSensitive(result) == IF Truthy(result, "status") THEN result.status ELSE <<>>

\* (result.status || '').toString().toUpperCase()
StatusOf(result) == toUpperCase(IF Truthy(result, "status") THEN result.status ELSE <<>>)

\* FailureReason with the two payload fields tried in the other order
FailureReason_ErrorFirst(result) ==
    IF Truthy(result, "error") THEN result.error
    ELSE IF Truthy(result, "message") THEN result.message
    ELSE <<"Unknown error">>

\* result.message || result.error || 'Unknown error'
FailureReason(result) ==
    IF Truthy(result, "message") THEN result.message
    ELSE IF Truthy(result, "error") THEN result.error
    ELSE <<"Unknown error">>

\* pollForResultTry returning only the run id of the SUCCESS payload
pollForResultTry_RunIdOnly(result) ==
    LET status == StatusOf(result)
    IN  IF status = SUCCESS THEN [kind |-> "return", value |-> [run_id |-> result.run_id]]
        ELSE IF status = ERROR \/ status = FAILED
        THEN [kind |-> "throw", error |-> Error(<<"Task failed: ">> \o FailureReason(result))]
        ELSE IF status = TIMEOUT
        THEN [kind |-> "throw", error |->
                Error(<<"Task timed out on the server. Try again or use smaller input.">>)]
        ELSE IF status = PAYMENT_REQUIRED
        THEN [kind |-> "throw", error |->
                Error(<<"Insufficient credits. Please check your Camb.ai account balance.">>)]
        ELSE [kind |-> "sleep"]

\* pollForResultTry without the PAYMENT_REQUIRED case
pollForResultTry_NoPaymentCase(result) ==
    LET status == StatusOf(result)
    IN  IF status = SUCCESS THEN [kind |-> "return", value |-> result]
        ELSE IF status = ERROR \/ status = FAILED
        THEN [kind |-> "throw", error |-> Error(<<"Task failed: ">> \o FailureReason(result))]
        ELSE IF status = TIMEOUT
        THEN [kind |-> "throw", error |->
                Error(<<"Task timed out on the server. Try again or use smaller input.">>)]
        ELSE [kind |-> "sleep"]

\* pollForResultTry failing on every status it does not know
pollForResultTry_OnlyPendingSleeps(result) ==
    LET status == StatusOf(result)
    IN  IF status = SUCCESS THEN [kind |-> "return", value |-> result]
        ELSE IF status = ERROR \/ status = FAILED
        THEN [kind |-> "throw", error |-> Error(<<"Task failed: ">> \o FailureReason(result))]
        ELSE IF status = TIMEOUT
        THEN [kind |-> "throw", error |->
                Error(<<"Task timed out on the server. Try again or use smaller input.">>)]
        ELSE IF status = PAYMENT_REQUIRED
        THEN [kind |-> "throw", error |->
                Error(<<"Insufficient credits. Please check your Camb.ai account balance.">>)]
        ELSE IF status = PENDING THEN [kind |-> "sleep"]
        ELSE [kind |-> "throw", error |-> Error(<<"Unknown status: ">> \o status)]

\* the try block after the status request returned result: what one iteration
\* of the loop does with it
pollForResultTry(result) ==
    LET status == StatusOf(result)
    IN  IF status = SUCCESS THEN [kind |-> "return", value |-> result]
        ELSE IF status = ERROR \/ status = FAILED
        THEN [kind |-> "throw", error |-> Error(<<"Task failed: ">> \o FailureReason(result))]
        ELSE IF status = TIMEOUT
        THEN [kind |-> "throw", error |->
                Error(<<"Task timed out on the server. Try again or use smaller input.">>)]
        ELSE IF status = PAYMENT_REQUIRED
        THEN [kind |-> "throw", error |->
                Error(<<"Insufficient credits. Please check your Camb.ai account balance.">>)]
        ELSE [kind |-> "sleep"]

\* pollForResultCatch retrying on every error
pollForResultCatch_RetryAll(error) == [kind |-> "sleep"]

\* the catch block of the loop, for an error thrown inside the try block
pollForResultCatch(error) ==
    IF IsNotFound(error) THEN [kind |-> "sleep"]
    ELSE [kind |-> "throw", error |-> error]

\* one iteration of the loop, from the settled status request r on
pollForResultStep(r) ==
    IF r.threw THEN pollForResultCatch(r.error)
    ELSE LET t == pollForResultTry(r.value)
         IN  IF t.kind = "throw" THEN pollForResultCatch(t.error) ELSE t


-----------------------------------------------------------------------------
(* The WAV header: generateWavHeader *)

\* A JavaScript number holding a non-negative integer is kept as two limbs,
\* hi * 2^24 + lo with lo < 2^24, so that the 32-bit fields of the header and
\* the values that no longer fit them are both within reach.
Limb == 4096 * 4096

\* the number with the integer value n
Number(n) == [hi |-> n \div Limb, lo |-> n % Limb]

\* a + b
Plus(a, b) == [hi |-> a.hi + b.hi + (a.lo + b.lo) \div Limb, lo |-> (a.lo + b.lo) % Limb]

\* a * n, n a small integer
Times(a, n) == [hi |-> a.hi * n + (a.lo * n) \div Limb, lo |-> (a.lo * n) % Limb]

\* what a Buffer write throws for a value outside the range of its field
RangeError == [name |-> "RangeError", message |-> <<"ERR_OUT_OF_RANGE">>]

\* UInt32LE keeping the low 32 bits of a value that does not fit
UInt32LE_Wrapping(value) ==
    << <<value.lo % 256, (value.lo \div 256) % 256, value.lo \div 65536, value.hi % 256>> >>

\* the bytes writeUInt32LE stores for value: none when it is above 0xFFFFFFFF
UInt32LE(value) ==
    IF value.hi >= 256 THEN <<>>
    ELSE << <<value.lo % 256, (value.lo \div 256) % 256, value.lo \div 65536, value.hi>> >>

\* the bytes writeUInt16LE stores for value: none when it is above 0xFFFF
UInt16LE(value) ==
    IF value.hi > 0 \/ value.lo >= 65536 THEN <<>>
    ELSE << <<value.lo % 256, value.lo \div 256>> >>

\* header.write(string, offset), header.writeUIntNNLE(value, offset): the bytes
\* stored from the 0-based offset on
Write(buf, bytes, offset) ==
    [k \in 1..Len(buf) |->
        IF k > offset /\ k <= offset + Len(bytes) THEN bytes[k - offset] ELSE buf[k]]

RECURSIVE WriteAll(_, _)
\* the writes of ws applied in order; a write is <<bytes, offset>>
WriteAll(buf, ws) ==
    IF ws = <<>> THEN buf
    ELSE WriteAll(Write(buf, ws[1][1], ws[1][2]), Tail(ws))

\* the ASCII codes of 'RIFF', 'WAVE', 'fmt ' and 'data'
RIFF == <<82, 73, 70, 70>>
WAVE == <<87, 65, 86, 69>>
FMT == <<102, 109, 116, 32>>
DATA == <<100, 97, 116, 97>>

\* generateWavHeader with the file size taken as the length of the whole file
generateWavHeader_WholeFileSize(dataLength, sampleRate, numChannels, bitsPerSample) ==
    LET byteRate == Times(Times(sampleRate, numChannels), bitsPerSample \div 8)
        blockAlign == Number(numChannels * (bitsPerSample \div 8))
        fileSize == Plus(Number(44), dataLength)
        fields == << <<UInt32LE(fileSize), 4>>, <<UInt32LE(Number(16)), 16>>,
                     <<UInt16LE(Number(1)), 20>>, <<UInt16LE(Number(numChannels)), 22>>,
                     <<UInt32LE(sampleRate), 24>>, <<UInt32LE(byteRate), 28>>,
                     <<UInt16LE(blockAlign), 32>>, <<UInt16LE(Number(bitsPerSample)), 34>>,
                     <<UInt32LE(dataLength), 40>> >>
    IN  IF \E k \in 1..Len(fields) : fields[k][1] = <<>>
        THEN [threw |-> TRUE, error |-> RangeError]
        ELSE [threw |-> FALSE,
              value |-> WriteAll([k \in 1..44 |-> 0],
                          << <<RIFF, 0>>, <<WAVE, 8>>, <<FMT, 12>>, <<DATA, 36>> >> \o
                          [k \in 1..Len(fields) |-> <<fields[k][1][1], fields[k][2]>>])]

\* generateWavHeader(dataLength, sampleRate, numChannels, bitsPerSample), with
\* bitsPerSample a multiple of 8: the 44 bytes it returns, or the RangeError of
\* the first field write whose value is out of range
generateWavHeader(dataLength, sampleRate, numChannels, bitsPerSample) ==
    LET byteRate == Times(Times(sampleRate, numChannels), bitsPerSample \div 8)
        blockAlign == Number(numChannels * (bitsPerSample \div 8))
        fileSize == Plus(Number(36), dataLength)
        fields == << <<UInt32LE(fileSize), 4>>, <<UInt32LE(Number(16)), 16>>,
                     <<UInt16LE(Number(1)), 20>>, <<UInt16LE(Number(numChannels)), 22>>,
                     <<UInt32LE(sampleRate), 24>>, <<UInt32LE(byteRate), 28>>,
                     <<UInt16LE(blockAlign), 32>>, <<UInt16LE(Number(bitsPerSample)), 34>>,
                     <<UInt32LE(dataLength), 40>> >>
    IN  IF \E k \in 1..Len(fields) : fields[k][1] = <<>>
        THEN [threw |-> TRUE, error |-> RangeError]
        ELSE [threw |-> FALSE,
              value |-> WriteAll([k \in 1..44 |-> 0],
                          << <<RIFF, 0>>, <<WAVE, 8>>, <<FMT, 12>>, <<DATA, 36>> >> \o
                          [k \in 1..Len(fields) |-> <<fields[k][1][1], fields[k][2]>>])]

\* SampleRateOf giving the default rate whatever the model
SampleRateOf_Fixed(model) == 22050

\* MODEL_SAMPLE_RATES[model] || 22050
SampleRateOf(model) ==
    CASE model = "mars-flash" -> 22050
      [] model = "mars-pro" -> 48000
      [] model = "mars-instruct" -> 22050
      [] OTHER -> 22050

-----------------------------------------------------------------------------
(* The operations of CambAi.execute *)

\* Handlers with a dispatch on the operation name alone
Handlers_ByOperation ==
    { <<r, "synthesize">> : r \in {"audio"} } \cup
    { <<r, o>> : r \in {"audio", "text", "voice"},
                 o \in { "translatedTts", "generateSound", "separateAudio", "transcribe",
                         "translate", "createVoice", "cloneVoice", "listVoices" } }

\* the (resource, operation) pairs execute has a branch for
Handlers ==
    { <<"audio", "synthesize">>, <<"audio", "translatedTts">>,
      <<"audio", "generateSound">>, <<"audio", "separateAudio">>,
      <<"text", "transcribe">>, <<"text", "translate">>,
      <<"voice", "createVoice">>, <<"voice", "cloneVoice">>,
      <<"voice", "listVoices">> }

\* a pair no branch matches
Unmatched == { <<"audio", "translate">> }

\* the branches that submit a task and poll for it
Asynchronous ==
    { "translatedTts", "generateSound", "separateAudio", "transcribe",
      "translate", "createVoice" }

\* the branches whose result lookup names two artifacts to download
TwoDownloads == { "separateAudio", "createVoice" }

\* the options of a binary fetch
BinaryOptions == [encoding |-> "arraybuffer", returnFullResponse |-> TRUE, json |-> FALSE]

\* the options of a download from an artifact URL
DownloadOptions == Assign(BinaryOptions, [baseURL |-> <<>>])

\* new FormData() with the fields appended to it
FormData(fields) == [formData |-> [form |-> "FormData", fields |-> fields]]

\* the first cambAiApiRequest of the branch of op
SubmitCall(op) ==
    CASE op = "synthesize" ->
           cambAiApiRequestCall("POST", <<"/tts-stream">>,
               [text |-> "text", voice_id |-> "voiceId", language |-> "language",
                speech_model |-> "model", output_configuration |-> "format"],
               EmptyObject, Assign(BinaryOptions, [timeout |-> 60000]))
      [] op = "translatedTts" ->
           cambAiApiRequestCall("POST", <<"/translated-tts">>,
               [text |-> "text", source_language |-> "sourceLanguage",
                target_language |-> "targetLanguage"], EmptyObject, EmptyObject)
      [] op = "generateSound" ->
           cambAiApiRequestCall("POST", <<"/text-to-sound">>,
               [prompt |-> "prompt", audio_type |-> "audioType", duration |-> "duration"],
               EmptyObject, EmptyObject)
      [] op = "separateAudio" ->
           cambAiApiRequestCall("POST", <<"/audio-separation">>, EmptyObject, EmptyObject,
               FormData({"media_file"}))
      [] op = "transcribe" ->
           cambAiApiRequestCall("POST", <<"/transcribe">>, EmptyObject, EmptyObject,
               FormData({"media_file", "language"}))
      [] op = "translate" ->
           cambAiApiRequestCall("POST", <<"/translate">>,
               [texts |-> "texts", source_language |-> "sourceLanguage",
                target_language |-> "targetLanguage"], EmptyObject, EmptyObject)
      [] op = "createVoice" ->
           cambAiApiRequestCall("POST", <<"/text-to-voice">>,
               [text |-> "text", voice_description |-> "voiceDescription"],
               EmptyObject, EmptyObject)
      [] op = "cloneVoice" ->
           cambAiApiRequestCall("POST", <<"/create-custom-voice">>, EmptyObject, EmptyObject,
               FormData({"file", "voice_name", "gender", "age"}))
      [] op = "listVoices" ->
           cambAiApiRequestCall("GET", <<"/list-voices">>, EmptyObject, EmptyObject,
               EmptyObject)

\* the endpoint pollForResult is called with: `/<task path>/${taskId}`
StatusEndpoint(op, tid) ==
    CASE op = "translatedTts" -> <<"/translated-tts/", tid>>
      [] op = "generateSound" -> <<"/text-to-sound/", tid>>
      [] op = "separateAudio" -> <<"/audio-separation/", tid>>
      [] op = "transcribe" -> <<"/transcribe/", tid>>
      [] op = "translate" -> <<"/translate/", tid>>
      [] op = "createVoice" -> <<"/text-to-voice/", tid>>

\* StatusCall with the deadline of the synthesis call
StatusCall_WithTimeout(endpoint) ==
    cambAiApiRequestCall("GET", endpoint, EmptyObject, EmptyObject, [timeout |-> 60000])

\* the status request of pollForResult: cambAiApiRequest.call(this, 'GET', endpoint)
StatusCall(endpoint) ==
    cambAiApiRequestCall("GET", endpoint, EmptyObject, EmptyObject, EmptyObject)

\* the follow-up fetch by run id
ResultCall(op, rid) ==
    CASE op = "translatedTts" ->
           cambAiApiRequestCall("GET", <<"/tts-result/", rid>>, EmptyObject, EmptyObject,
               BinaryOptions)
      [] op = "generateSound" ->
           cambAiApiRequestCall("GET", <<"/text-to-sound-result/", rid>>, EmptyObject,
               EmptyObject, BinaryOptions)
      [] op = "separateAudio" ->
           cambAiApiRequestCall("GET", <<"/audio-separation-result/", rid>>, EmptyObject,
               EmptyObject, EmptyObject)
      [] op = "transcribe" ->
           cambAiApiRequestCall("GET", <<"/transcription-result/", rid>>, EmptyObject,
               [data_type |-> "json", format_type |-> "txt"], EmptyObject)
      [] op = "translate" ->
           cambAiApiRequestCall("GET", <<"/translation-result/", rid>>, EmptyObject,
               EmptyObject, EmptyObject)
      [] op = "createVoice" ->
           cambAiApiRequestCall("GET", <<"/text-to-voice-result/", rid>>, EmptyObject,
               EmptyObject, EmptyObject)

\* the download of one artifact from the URL the result lookup gave
DownloadCall(url) ==
    cambAiApiRequestCall("GET", url, EmptyObject, EmptyObject, DownloadOptions)

\* ArtifactUrls with the second artifact downloaded first
ArtifactUrls_SecondFirst(op, result) ==
    IF op = "separateAudio"
    THEN <<result.background_audio_url, result.foreground_audio_url>>
    ELSE <<result.previews[2], result.previews[1]>>

\* the two artifact URLs of a result lookup, in the order they are downloaded
ArtifactUrls(op, result) ==
    IF op = "separateAudio"
    THEN <<result.foreground_audio_url, result.background_audio_url>>
    ELSE <<result.previews[1], result.previews[2]>>


-----------------------------------------------------------------------------
(* The remote service and the host: the inputs of the model *)

\* the task ids the service hands out, one to each submission of a batch
TaskIds == <<"t1", "t2", "t3", "t4">>
Message == <<"upstream message">>

\* what the transport throws: an object with an optional statusCode and message
TransportErrors ==
    { [statusCode |-> 400, message |-> Message], [statusCode |-> 400],
      [statusCode |-> 401, message |-> Message],
      [statusCode |-> 404, message |-> Message],
      [statusCode |-> 429, message |-> Message],
      [statusCode |-> 500, message |-> Message],
      [message |-> Message] }

Failures == { [ok |-> FALSE, error |-> e] : e \in TransportErrors }

Ok(response) == [ok |-> TRUE, response |-> response]

\* the payloads a status endpoint answers with
StatusResponses ==
    { [status |-> SUCCESS, run_id |-> "r1"],
      [status |-> <<"s","u","c","c","e","s","s">>, run_id |-> "r2"] }
    \cup { [status |-> PENDING, run_id |-> "r1"] }
    \cup { [status |-> st] :
             st \in {<<"P","e","n","d","i","n","g">>, <<"Q","U","E","U","E","D">>,
                     <<>>, TIMEOUT, PAYMENT_REQUIRED,
                     <<"p","a","y","m","e","n","t","_","r","e","q","u","i","r","e","d">>,
                     ERROR, FAILED} }
    \cup { EmptyObject }
    \cup { [status |-> ERROR, message |-> <<"m">>, error |-> <<"e">>],
           [status |-> ERROR, message |-> <<>>, error |-> <<"e">>],
           [status |-> FAILED, error |-> <<"e">>],
           [status |-> <<"f","a","i","l","e","d">>, message |-> <<"m">>] }

AudioBytes == <<7, 7, 7>>

\* a raw PCM payload of 1000 bytes
Pcm1000 == [k \in 1..1000 |-> k % 256]

\* the payload of the follow-up result lookup of op
ResultResponses(op) ==
    CASE op \in {"translatedTts", "generateSound"} -> { [body |-> AudioBytes] }
      [] op = "separateAudio" ->
           { [foreground_audio_url |-> <<"https://cdn.example/fg.wav">>,
              background_audio_url |-> <<"https://cdn.example/bg.wav">>] }
      [] op = "transcribe" ->
           { [transcript |-> << [start |-> 0, end |-> 1, text |-> "hello", speaker |-> "A"] >>],
             EmptyObject }
      [] op = "translate" -> { [texts |-> <<"hola">>] }
      [] op = "createVoice" ->
           { [previews |-> << <<"https://cdn.example/p1.mp3">>,
                              <<"https://cdn.example/p2.mp3">> >>] }

\* the bytes stored at an artifact URL
ArtifactBytes(url) ==
    CASE url = <<"https://cdn.example/fg.wav">> -> <<1, 1>>
      [] url = <<"https://cdn.example/bg.wav">> -> <<2, 2, 2>>
      [] url = <<"https://cdn.example/p1.mp3">> -> <<3>>
      [] url = <<"https://cdn.example/p2.mp3">> -> <<4, 4, 4, 4>>
      [] OTHER -> AudioBytes

\* the payload of the first request of op, for the item of index idx
SubmitResponses(op, idx) ==
    CASE op = "synthesize" -> { [body |-> AudioBytes], [body |-> Pcm1000] }
      [] op = "cloneVoice" -> { [voice_id |-> 7] }
      [] op = "listVoices" -> { <<>>, << [id |-> 1], [id |-> 2] >> }
      [] OTHER -> { [task_id |-> TaskIds[idx + 1]] }

TextLengths == {0, 2, 3, 3000, 3001}
OutputFormats == {"pcm_s16le", "wav", "flac"}
Models == {"mars-flash", "mars-pro", "mars-instruct", "mars-next"}
DescriptionLengths == {99, 100}

\* the parameters of an item that the branch of op reads before its first
\* request; a parameter the branch never reads is left at a valid value
ItemInputs(op) ==
    { [textLength |-> t, descriptionLength |-> d, hasBinary |-> b, outputFormat |-> f,
       model |-> m] :
        t \in IF op = "synthesize" THEN TextLengths ELSE {3},
        d \in IF op = "createVoice" THEN DescriptionLengths ELSE {100},
        b \in IF op \in {"separateAudio", "transcribe", "cloneVoice"} THEN BOOLEAN
              ELSE {TRUE},
        f \in IF op = "synthesize" THEN OutputFormats ELSE {"wav"},
        m \in IF op = "synthesize" THEN Models ELSE {"mars-flash"} }


-----------------------------------------------------------------------------
(* The trace of an item *)

\* a transport request, as handed to the transport named in call
Request(role, call) ==
    [ev |-> "request", role |-> role, transport |-> call.transport,
     credential |-> call.credential, request |-> call.request]

\* Sleep lasting longer with every open answer read before (a backoff)
Sleep_Backoff(ms) == [ev |-> "sleep", ms |-> ms * (pending + 1)]

\* await new Promise((resolve) => setTimeout(resolve, interval))
Sleep(ms) == [ev |-> "sleep", ms |-> ms]

IsRequest(e) == e.ev = "request"
IsSleep(e) == e.ev = "sleep"
IsRole(e, role) == e.ev = "request" /\ e.role = role

RECURSIVE CountIn(_, _, _)
\* the number of events of tr that are sleeps (role "sleep"), requests (role
\* "request") or requests of the given role
CountIn(tr, role, k) ==
    IF k = 0 THEN 0
    ELSE CountIn(tr, role, k - 1)
         + (IF \/ (role = "sleep" /\ IsSleep(tr[k]))
               \/ (role = "request" /\ IsRequest(tr[k]))
               \/ IsRole(tr[k], role)
            THEN 1 ELSE 0)

Count(tr, role) == CountIn(tr, role, Len(tr))

-----------------------------------------------------------------------------
(* The output records *)

\* the caller-chosen binary property name
PropertyName == <<"data">>

\* ErrorRecord storing the name of the caught error next to its message
ErrorRecord_WithName(error, idx) ==
    [json |-> [error |-> error.message, name |-> error.name], pairedItem |-> [item |-> idx]]

\* ErrorRecord pairing every error with the first input item
ErrorRecord_FirstItem(error, idx) ==
    [json |-> [error |-> error.message], pairedItem |-> [item |-> 0]]

\* returnData.push({ json: { error: error.message }, pairedItem: { item: i } })
ErrorRecord(error, idx) ==
    [json |-> [error |-> error.message], pairedItem |-> [item |-> idx]]

\* SynthesizeAudio putting the WAV header in front whatever the output format
SynthesizeAudio_AlwaysHeader(p, body) ==
    LET args == [dataLength |-> Number(Len(body)),
                 sampleRate |-> Number(SampleRateOf(p.model)),
                 numChannels |-> 1, bitsPerSample |-> 16]
        h == generateWavHeader(args.dataLength, args.sampleRate, args.numChannels,
                               args.bitsPerSample)
    IN  IF h.threw
        THEN [calls |-> << [args |-> args, result |-> h] >>, threw |-> TRUE,
              error |-> h.error]
        ELSE [calls |-> << [args |-> args, result |-> h] >>, threw |-> FALSE,
              audioBuffer |-> h.value \o body]

\* synthesize from its response on: the audio it stores, raw PCM getting the
\* WAV header in front, and the calls of generateWavHeader it makes
SynthesizeAudio(p, body) ==
    IF p.outputFormat = "pcm_s16le"
    THEN LET args == [dataLength |-> Number(Len(body)),
                      sampleRate |-> Number(SampleRateOf(p.model)),
                      numChannels |-> 1, bitsPerSample |-> 16]
             h == generateWavHeader(args.dataLength, args.sampleRate, args.numChannels,
                                    args.bitsPerSample)
         IN  IF h.threw
             THEN [calls |-> << [args |-> args, result |-> h] >>, threw |-> TRUE,
                   error |-> h.error]
             ELSE [calls |-> << [args |-> args, result |-> h] >>, threw |-> FALSE,
                   audioBuffer |-> h.value \o body]
    ELSE [calls |-> <<>>, threw |-> FALSE, audioBuffer |-> body]

\* what synthesize pushes
SynthesizeRecord(idx, p, audioBuffer) ==
    [json |-> [outputFormat |-> p.outputFormat, size |-> Len(audioBuffer)],
     binary |-> [k \in {PropertyName} |-> audioBuffer],
     pairedItem |-> [item |-> idx]]

\* SyncRecords with cloneVoice looking the new voice up before it pushes: the
\* record holds the identifier alone, not the creation response
SyncRecords_IdentifierOnly(op, idx, response) ==
    CASE op = "cloneVoice" ->
           << [json |-> [voiceId |-> response.voice_id, voiceName |-> "voiceName",
                         gender |-> "gender", age |-> "age"],
               pairedItem |-> [item |-> idx]] >>
      [] op = "listVoices" ->
           [k \in 1..Len(response) |-> [json |-> response[k], pairedItem |-> [item |-> idx]]]

\* what cloneVoice and listVoices push for their response
SyncRecords(op, idx, response) ==
    CASE op = "cloneVoice" ->
           << [json |-> Assign([voiceId |-> response.voice_id, voiceName |-> "voiceName",
                                gender |-> "gender", age |-> "age"], response),
               pairedItem |-> [item |-> idx]] >>
      [] op = "listVoices" ->
           [k \in 1..Len(response) |-> [json |-> response[k], pairedItem |-> [item |-> idx]]]

\* mimeTypes[outputFormat] with raw PCM labelled as what it is
MimeTypeOf_RawPcm(outputFormat) ==
    CASE outputFormat = "wav" -> "audio/wav"
      [] outputFormat = "flac" -> "audio/flac"
      [] outputFormat = "adts" -> "audio/aac"
      [] outputFormat = "pcm_s16le" -> "audio/pcm"
      [] OTHER -> "audio/wav"

\* mimeTypes[outputFormat] || 'audio/wav'
MimeTypeOf(outputFormat) ==
    CASE outputFormat = "wav" -> "audio/wav"
      [] outputFormat = "flac" -> "audio/flac"
      [] outputFormat = "adts" -> "audio/aac"
      [] outputFormat = "pcm_s16le" -> "audio/wav"
      [] OTHER -> "audio/wav"

\* extensions[outputFormat] || 'wav'
ExtensionOf(outputFormat) ==
    CASE outputFormat = "wav" -> "wav"
      [] outputFormat = "flac" -> "flac"
      [] outputFormat = "adts" -> "aac"
      [] outputFormat = "pcm_s16le" -> "wav"
      [] OTHER -> "wav"

\* this.helpers.prepareBinaryData(buffer, fileName, mimeType): the bytes as
\* they are, under the two labels
prepareBinaryData(buffer, fileName, mimeType) ==
    [data |-> buffer, fileName |-> fileName, mimeType |-> mimeType]

\* AsyncRecord with the two identifiers stored under each other's key
AsyncRecord_SwappedIds(op, idx, tid, rid, result, p) ==
    [json |-> [taskId |-> rid, runId |-> tid], pairedItem |-> [item |-> idx]]

\* what a branch with a poller and one follow-up fetch pushes, p being the
\* parameters of the item
AsyncRecord(op, idx, tid, rid, result, p) ==
    CASE op = "translatedTts" ->
           [json |-> [taskId |-> tid, runId |-> rid, size |-> Len(result.body)],
            binary |-> [k \in {PropertyName} |->
                          prepareBinaryData(result.body,
                              <<"translated_tts_", tid, ".wav">>, "audio/wav")],
            pairedItem |-> [item |-> idx]]
      [] op = "generateSound" ->
           [json |-> [taskId |-> tid, runId |-> rid, size |-> Len(result.body)],
            binary |-> [k \in {PropertyName} |->
                          prepareBinaryData(result.body,
                              <<"sound_", tid, ".", ExtensionOf(p.outputFormat)>>,
                              MimeTypeOf(p.outputFormat))],
            pairedItem |-> [item |-> idx]]
      [] op = "transcribe" ->
           [json |-> [taskId |-> tid, runId |-> rid,
                      segments |-> IF Has(result, "transcript") THEN result.transcript
                                   ELSE <<>>],
            pairedItem |-> [item |-> idx]]
      [] op = "translate" ->
           [json |-> [taskId |-> tid, runId |-> rid, translatedTexts |-> result.texts],
            pairedItem |-> [item |-> idx]]

\* TwoBinaryRecord with the two downloads stored under each other's name
TwoBinaryRecord_Swapped(op, idx, tid, rid, us, first, second) ==
    LET secondName == PropertyName \o
                      (IF op = "separateAudio" THEN <<"_background">> ELSE <<"_preview2">>)
    IN  [json |-> [taskId |-> tid, runId |-> rid, urls |-> us],
         binary |-> [k \in {PropertyName, secondName} |->
                        IF k = PropertyName THEN second ELSE first],
         pairedItem |-> [item |-> idx]]

\* what separateAudio and createVoice push after both downloads
TwoBinaryRecord(op, idx, tid, rid, us, first, second) ==
    LET secondName == PropertyName \o
                      (IF op = "separateAudio" THEN <<"_background">> ELSE <<"_preview2">>)
    IN  [json |-> [taskId |-> tid, runId |-> rid, urls |-> us],
         binary |-> [k \in {PropertyName, secondName} |->
                        IF k = PropertyName THEN first ELSE second],
         pairedItem |-> [item |-> idx]]

\* ValidationError with the two bounds of the text length excluded
ValidationError_ExclusiveBounds(op, textLength, descriptionLength, hasBinary, idx) ==
    IF op = "synthesize" /\ (textLength <= 3 \/ textLength >= 3000)
    THEN << NodeOperationError(<<"Text must be between 3 and 3000 characters">>, idx) >>
    ELSE IF op = "createVoice" /\ descriptionLength < 100
    THEN << NodeOperationError(
              <<"Voice description must be at least 100 characters (18+ words)">>, idx) >>
    ELSE IF op \in {"separateAudio", "transcribe", "cloneVoice"} /\ ~hasBinary
    THEN << NodeOperationError(<<"This operation expects binary data">>, idx) >>
    ELSE <<>>

\* ValidationError asking for a description of more than 100 characters
ValidationError_DescriptionAbove100(op, textLength, descriptionLength, hasBinary, idx) ==
    IF op = "synthesize" /\ (textLength < 3 \/ textLength > 3000)
    THEN << NodeOperationError(<<"Text must be between 3 and 3000 characters">>, idx) >>
    ELSE IF op = "createVoice" /\ descriptionLength <= 100
    THEN << NodeOperationError(
              <<"Voice description must be at least 100 characters (18+ words)">>, idx) >>
    ELSE IF op \in {"separateAudio", "transcribe", "cloneVoice"} /\ ~hasBinary
    THEN << NodeOperationError(<<"This operation expects binary data">>, idx) >>
    ELSE <<>>

\* the input checks of a branch, before its first request: the error thrown,
\* if any
ValidationError(op, textLength, descriptionLength, hasBinary, idx) ==
    IF op = "synthesize" /\ (textLength < 3 \/ textLength > 3000)
    THEN << NodeOperationError(<<"Text must be between 3 and 3000 characters">>, idx) >>
    ELSE IF op = "createVoice" /\ descriptionLength < 100
    THEN << NodeOperationError(
              <<"Voice description must be at least 100 characters (18+ words)">>, idx) >>
    ELSE IF op \in {"separateAudio", "transcribe", "cloneVoice"} /\ ~hasBinary
    THEN << NodeOperationError(<<"This operation expects binary data">>, idx) >>
    ELSE <<>>

-----------------------------------------------------------------------------
(* execute *)

Init ==
    /\ \E h \in Handlers \cup Unmatched : resource = h[1] /\ operation = h[2]
    /\ continueOnFail \in BOOLEAN
    /\ nItems \in 1..MaxItems
    /\ i = 0
    /\ pc = "item"
    /\ trace = <<>>
    /\ calls = 0
    /\ last = <<>>
    /\ pending = 0
    /\ taskId = <<>>
    /\ envelope = <<>>
    /\ urls = <<>>
    /\ binaries = <<>>
    /\ itemError = <<>>
    /\ returnData = <<>>
    /\ thrown = <<>>
    /\ params = EmptyObject
    /\ wav = <<>>

\* where execute is after item idx: at the head of the next iteration, or, the
\* loop condition failing, at return [returnData]
AfterItem(idx) == IF idx + 1 < nItems THEN "item" ELSE "done"

\* Catch recording the error and going on whatever continueOnFail() says
Catch_ContinueAlways(error) ==
    /\ itemError' = <<error>>
    /\ returnData' = Append(returnData, ErrorRecord(error, i))
    /\ i' = i + 1
    /\ pc' = AfterItem(i)
    /\ UNCHANGED thrown

\* the catch block of the item loop
Catch(error) ==
    /\ itemError' = <<error>>
    /\ IF continueOnFail
       THEN /\ returnData' = Append(returnData, ErrorRecord(error, i))
            /\ i' = i + 1
            /\ pc' = AfterItem(i)
            /\ UNCHANGED thrown
       ELSE /\ thrown' = <<error>>
            /\ pc' = "aborted"
            /\ UNCHANGED <<returnData, i>>

\* Complete with a success clearing the error records of the items before
Complete_DroppingFailures(records) ==
    /\ returnData' = SelectSeq(returnData, LAMBDA r : ~Has(r.json, "error")) \o records
    /\ i' = i + 1
    /\ pc' = AfterItem(i)
    /\ UNCHANGED <<itemError, thrown>>

\* the end of a branch: its records are pushed and the loop goes on
Complete(records) ==
    /\ returnData' = returnData \o records
    /\ i' = i + 1
    /\ pc' = AfterItem(i)
    /\ UNCHANGED <<itemError, thrown>>

\* ItemStart not waiting for the submit of the previous item: the next item
\* begins while that request is still in flight
ItemStart_Overlapping ==
    /\ pc \in {"item", "submit"}
    /\ pc = "submit" => i + 1 < nItems
    /\ last' = <<>>
    /\ pending' = 0
    /\ taskId' = <<>>
    /\ envelope' = <<>>
    /\ urls' = <<>>
    /\ binaries' = <<>>
    /\ wav' = <<>>
    /\ UNCHANGED <<resource, operation, continueOnFail, nItems>>
    /\ \E input \in ItemInputs(operation) :
       /\ params' = input
       /\ LET invalid == ValidationError(operation, input.textLength,
                                         input.descriptionLength, input.hasBinary, i)
          IN IF <<resource, operation>> \notin Handlers
             THEN /\ trace' = <<>>
                  /\ calls' = 0
                  /\ itemError' = <<>>
                  /\ i' = i + 1
                  /\ pc' = AfterItem(i)
                  /\ UNCHANGED <<returnData, thrown>>
             ELSE IF invalid # <<>>
             THEN /\ trace' = <<>>
                  /\ calls' = 0
                  /\ Catch(invalid[1])
             ELSE /\ trace' = << Request("submit", SubmitCall(operation)) >>
                  /\ calls' = 1
                  /\ itemError' = <<>>
                  /\ pc' = "submit"
                  /\ i' = IF pc = "submit" THEN i + 1 ELSE i
                  /\ UNCHANGED <<returnData, thrown>>

\* ItemStart checking the parameters only after the first request was sent
ItemStart_RequestBeforeCheck ==
    /\ pc = "item"
    /\ last' = <<>>
    /\ pending' = 0
    /\ taskId' = <<>>
    /\ envelope' = <<>>
    /\ urls' = <<>>
    /\ binaries' = <<>>
    /\ wav' = <<>>
    /\ UNCHANGED <<resource, operation, continueOnFail, nItems>>
    /\ \E input \in ItemInputs(operation) :
       /\ params' = input
       /\ LET invalid == ValidationError(operation, input.textLength,
                                         input.descriptionLength, input.hasBinary, i)
          IN IF <<resource, operation>> \notin Handlers
             THEN /\ trace' = <<>>
                  /\ calls' = 0
                  /\ itemError' = <<>>
                  /\ i' = i + 1
                  /\ pc' = AfterItem(i)
                  /\ UNCHANGED <<returnData, thrown>>
             ELSE IF invalid # <<>>
             THEN /\ trace' = << Request("submit", SubmitCall(operation)) >>
                  /\ calls' = 1
                  /\ Catch(invalid[1])
             ELSE /\ trace' = << Request("submit", SubmitCall(operation)) >>
                  /\ calls' = 1
                  /\ itemError' = <<>>
                  /\ pc' = "submit"
                  /\ UNCHANGED <<i, returnData, thrown>>

\* an iteration of the item loop begins: the parameters are read (they are
\* one of inputs) and checked, and the first request of the branch is issued
ItemStartFrom(inputs) ==
    /\ pc = "item"
    /\ last' = <<>>
    /\ pending' = 0
    /\ taskId' = <<>>
    /\ envelope' = <<>>
    /\ urls' = <<>>
    /\ binaries' = <<>>
    /\ wav' = <<>>
    /\ UNCHANGED <<resource, operation, continueOnFail, nItems>>
    /\ \E input \in inputs :
       /\ params' = input
       /\ LET invalid == ValidationError(operation, input.textLength,
                                         input.descriptionLength, input.hasBinary, i)
          IN IF <<resource, operation>> \notin Handlers
             THEN /\ trace' = <<>>
                  /\ calls' = 0
                  /\ itemError' = <<>>
                  /\ i' = i + 1
                  /\ pc' = AfterItem(i)
                  /\ UNCHANGED <<returnData, thrown>>
             ELSE IF invalid # <<>>
             THEN /\ trace' = <<>>
                  /\ calls' = 0
                  /\ Catch(invalid[1])
             ELSE /\ trace' = << Request("submit", SubmitCall(operation)) >>
                  /\ calls' = 1
                  /\ itemError' = <<>>
                  /\ pc' = "submit"
                  /\ UNCHANGED <<i, returnData, thrown>>

\* an iteration of the item loop begins
ItemStart == ItemStartFrom(ItemInputs(operation))

\* the first request of the branch settles
SubmitSettled ==
    /\ pc = "submit"
    /\ UNCHANGED <<resource, operation, continueOnFail, nItems, pending, envelope, urls,
                   binaries, params>>
    /\ \E outcome \in { Ok(r) : r \in SubmitResponses(operation, i) } \cup Failures :
         LET r == cambAiApiRequestSettle(trace[Len(trace)], outcome)
         IN  /\ last' = << [role |-> "submit", outcome |-> outcome] >>
             /\ IF r.threw
                THEN /\ trace' = trace \o r.retried
                     /\ UNCHANGED <<calls, taskId, wav>>
                     /\ Catch(r.error)
                ELSE IF operation \in Asynchronous
                THEN /\ taskId' = << r.value.task_id >>
                     /\ trace' = trace \o r.retried \o
                           << Request("status",
                                 StatusCall(StatusEndpoint(operation, r.value.task_id))) >>
                     /\ calls' = calls + 1
                     /\ pc' = "poll"
                     /\ UNCHANGED <<i, itemError, returnData, thrown, wav>>
                ELSE IF operation = "synthesize"
                THEN LET a == SynthesizeAudio(params, r.value.body)
                     IN  /\ trace' = trace \o r.retried
                         /\ UNCHANGED <<calls, taskId>>
                         /\ wav' = a.calls
                         /\ IF a.threw THEN Catch(a.error)
                            ELSE Complete(<< SynthesizeRecord(i, params, a.audioBuffer) >>)
                ELSE /\ trace' = trace \o r.retried
                     /\ UNCHANGED <<calls, taskId, wav>>
                     /\ Complete(SyncRecords(operation, i, r.value))


\* a status answer after which the remote is done with the task: a terminal
\* status, or a transport failure other than "not found"
Conclusive(outcome) ==
    IF outcome.ok
    THEN StatusOf(outcome.response) \in {SUCCESS, ERROR, FAILED, TIMEOUT, PAYMENT_REQUIRED}
    ELSE ~HasStatusCode(outcome.error, 404)

\* what the n-th status request of an item can be answered with: the remote
\* concludes the task by its MaxPolls-th answer
StatusOutcomes(n) ==
    LET all == { Ok(r) : r \in StatusResponses } \cup Failures
    IN  IF n < MaxPolls THEN all ELSE { o \in all : Conclusive(o) }

\* a status request of pollForResult settles: one iteration of its loop, and
\* on return the follow-up fetch by run id
PollSettled ==
    /\ pc = "poll"
    /\ UNCHANGED <<resource, operation, continueOnFail, nItems, taskId, urls, binaries,
                   params, wav>>
    /\ \E outcome \in StatusOutcomes(Count(trace, "status")) :
         LET r == cambAiApiRequestSettle(trace[Len(trace)], outcome)
             d == pollForResultStep(r)
         IN  /\ last' = << [role |-> "status", outcome |-> outcome] >>
             /\ pending' = IF outcome.ok /\ ~Conclusive(outcome) THEN pending + 1
                           ELSE pending
             /\ IF d.kind = "sleep"
                THEN /\ trace' = trace \o r.retried \o << Sleep(DefaultInterval) >>
                     /\ pc' = "sleep"
                     /\ UNCHANGED <<calls, envelope, i, itemError, returnData, thrown>>
                ELSE IF d.kind = "return"
                THEN /\ envelope' = << d.value >>
                     /\ trace' = trace \o r.retried \o
                           << Request("result", ResultCall(operation, d.value.run_id)) >>
                     /\ calls' = calls + 1
                     /\ pc' = "fetch"
                     /\ UNCHANGED <<i, itemError, returnData, thrown>>
                ELSE /\ trace' = trace \o r.retried
                     /\ UNCHANGED <<calls, envelope>>
                     /\ Catch(d.error)

\* the sleep of pollForResult ends: the loop issues the next status request
SleepDone ==
    /\ pc = "sleep"
    /\ Count(trace, "status") < MaxPolls
    /\ trace' = Append(trace,
                   Request("status", StatusCall(StatusEndpoint(operation, taskId[1]))))
    /\ calls' = calls + 1
    /\ pc' = "poll"
    /\ UNCHANGED <<resource, operation, continueOnFail, nItems, i, last, pending, taskId,
                   envelope, urls, binaries, itemError, returnData, thrown, params, wav>>

\* the follow-up fetch by run id settles
FetchSettled ==
    /\ pc = "fetch"
    /\ UNCHANGED <<resource, operation, continueOnFail, nItems, pending, taskId, envelope,
                   binaries, params, wav>>
    /\ \E outcome \in { Ok(r) : r \in ResultResponses(operation) } \cup Failures :
         LET r == cambAiApiRequestSettle(trace[Len(trace)], outcome)
         IN  /\ last' = << [role |-> "result", outcome |-> outcome] >>
             /\ IF r.threw
                THEN /\ trace' = trace \o r.retried
                     /\ UNCHANGED <<calls, urls>>
                     /\ Catch(r.error)
                ELSE IF operation \in TwoDownloads
                THEN /\ urls' = ArtifactUrls(operation, r.value)
                     /\ trace' = trace \o r.retried \o
                           << Request("download",
                                 DownloadCall(ArtifactUrls(operation, r.value)[1])) >>
                     /\ calls' = calls + 1
                     /\ pc' = "download1"
                     /\ UNCHANGED <<i, itemError, returnData, thrown>>
                ELSE /\ trace' = trace \o r.retried
                     /\ UNCHANGED <<calls, urls>>
                     /\ Complete(<< AsyncRecord(operation, i, taskId[1],
                                                envelope[1].run_id, r.value, params) >>)

\* the download of the first artifact settles
Download1Settled ==
    /\ pc = "download1"
    /\ UNCHANGED <<resource, operation, continueOnFail, nItems, pending, taskId, envelope,
                   urls, params, wav>>
    /\ \E outcome \in { Ok([body |-> ArtifactBytes(trace[Len(trace)].request.url)]) }
                      \cup Failures :
         LET r == cambAiApiRequestSettle(trace[Len(trace)], outcome)
         IN  /\ last' = << [role |-> "download", outcome |-> outcome] >>
             /\ IF r.threw
                THEN /\ trace' = trace \o r.retried
                     /\ UNCHANGED <<calls, binaries>>
                     /\ Catch(r.error)
                ELSE /\ binaries' = << r.value.body >>
                     /\ trace' = trace \o r.retried \o
                           << Request("download", DownloadCall(urls[2])) >>
                     /\ calls' = calls + 1
                     /\ pc' = "download2"
                     /\ UNCHANGED <<i, itemError, returnData, thrown>>

\* the download of the second artifact settles
Download2Settled ==
    /\ pc = "download2"
    /\ UNCHANGED <<resource, operation, continueOnFail, nItems, pending, taskId, envelope,
                   urls, params, wav>>
    /\ \E outcome \in { Ok([body |-> ArtifactBytes(trace[Len(trace)].request.url)]) }
                      \cup Failures :
         LET r == cambAiApiRequestSettle(trace[Len(trace)], outcome)
         IN  /\ last' = << [role |-> "download", outcome |-> outcome] >>
             /\ trace' = trace \o r.retried
             /\ UNCHANGED calls
             /\ IF r.threw
                THEN /\ UNCHANGED binaries
                     /\ Catch(r.error)
                ELSE /\ binaries' = Append(binaries, r.value.body)
                     /\ Complete(<< TwoBinaryRecord(operation, i, taskId[1],
                                        envelope[1].run_id, urls, binaries[1],
                                        r.value.body) >>)

Next ==
    \/ ItemStart
    \/ SubmitSettled
    \/ PollSettled
    \/ SleepDone
    \/ FetchSettled
    \/ Download1Settled
    \/ Download2Settled

Spec == Init /\ [][Next]_vars

\* execute on a single item, every request and every sleep completing
InitSingle == Init /\ nItems = 1

FairSpec == InitSingle /\ [][Next]_vars /\ WF_vars(Next)

-----------------------------------------------------------------------------
(* generateSound over every output format *)

\* the options of the outputFormat parameter
SoundFormats == {"wav", "flac", "adts", "pcm_s16le"}

\* the parameters of a generateSound item, the output format being any option
SoundInputs ==
    { [input EXCEPT !.outputFormat = f] :
        input \in ItemInputs("generateSound"), f \in SoundFormats }

SoundInit == Init /\ resource = "audio" /\ operation = "generateSound"

\* an iteration of the item loop begins
SoundItemStart == ItemStartFrom(SoundInputs)

SoundNext ==
    \/ SoundItemStart
    \/ SubmitSettled
    \/ PollSettled
    \/ SleepDone
    \/ FetchSettled

\* execute on a batch of generateSound items
SoundSpec == SoundInit /\ [][SoundNext]_vars


-----------------------------------------------------------------------------
(* generateWavHeader on its own *)

\* the data lengths a caller passes: 0, 1, 1000, 2^32 - 37, 2^32 - 36, 2^32
DataLengths ==
    { Number(0), Number(1), Number(1000), [hi |-> 255, lo |-> Limb - 37],
      [hi |-> 255, lo |-> Limb - 36], [hi |-> 256, lo |-> 0] }

\* the sample rates a caller passes: 1, 8000, 22050, 24000, 48000, the largest
\* one whose byte rate fits 32 bits at 2 channels of 24 bits and the next one,
\* 2^32 - 1 and 2^32
SampleRates ==
    { Number(1), Number(8000), Number(22050), Number(24000), Number(48000),
      Number(715827882), Number(715827883), [hi |-> 255, lo |-> Limb - 1],
      [hi |-> 256, lo |-> 0] }

WavArgs ==
    [dataLength : DataLengths, sampleRate : SampleRates, numChannels : {1, 2},
     bitsPerSample : {8, 16, 24}]

\* a caller is about to call generateWavHeader
WavInit ==
    /\ \E a \in WavArgs : wav = << [args |-> a] >>
    /\ pc = "wav"
    /\ resource = "audio"
    /\ operation = "synthesize"
    /\ continueOnFail = FALSE
    /\ nItems = 1
    /\ i = 0
    /\ trace = <<>>
    /\ calls = 0
    /\ last = <<>>
    /\ pending = 0
    /\ taskId = <<>>
    /\ envelope = <<>>
    /\ urls = <<>>
    /\ binaries = <<>>
    /\ itemError = <<>>
    /\ returnData = <<>>
    /\ thrown = <<>>
    /\ params = EmptyObject

\* the call returns or throws
GenerateWavHeader ==
    /\ pc = "wav"
    /\ wav' = << [args |-> wav[1].args,
                  result |-> generateWavHeader(wav[1].args.dataLength, wav[1].args.sampleRate,
                                               wav[1].args.numChannels,
                                               wav[1].args.bitsPerSample)] >>
    /\ pc' = "done"
    /\ UNCHANGED <<resource, operation, continueOnFail, nItems, i, trace, calls, last,
                   pending, taskId, envelope, urls, binaries, itemError, returnData, thrown,
                   params>>

WavNext == GenerateWavHeader

WavSpec == WavInit /\ [][WavNext]_vars

\* return [returnData]: what execute has returned, if it has
Returned == IF pc = "done" THEN << <<returnData>> >> ELSE <<>>

-----------------------------------------------------------------------------
(* One iteration of pollForResult on its own *)

\* the words a status field holds, in lower case
StatusWords ==
    { <<"s","u","c","c","e","s","s">>, <<"e","r","r","o","r">>,
      <<"f","a","i","l","e","d">>, <<"t","i","m","e","o","u","t">>,
      <<"p","a","y","m","e","n","t","_","r","e","q","u","i","r","e","d">>,
      <<"p","e","n","d","i","n","g">>, <<"q","u","e","u","e","d">>, <<>> }

\* the spellings of a word: in lower case, in upper case, capitalised, and with
\* every other letter in upper case
Spellings(w) ==
    { w, toUpperCase(w),
      [k \in 1..Len(w) |-> IF k = 1 THEN UpperChar(w[k]) ELSE w[k]],
      [k \in 1..Len(w) |-> IF k % 2 = 0 THEN UpperChar(w[k]) ELSE w[k]] }

\* the payloads a status endpoint answers with, in every spelling of the status
CasedStatusResponses ==
    { Assign([status |-> s], rest) :
        s \in UNION { Spellings(w) : w \in StatusWords },
        rest \in { EmptyObject, [run_id |-> "r1"], [message |-> <<"m">>],
                   [error |-> <<"e">>], [message |-> <<>>, error |-> <<"e">>] } }

\* the status request of a poller has been answered with a payload
StatusInit ==
    /\ \E p \in CasedStatusResponses : last = << [role |-> "status", outcome |-> Ok(p)] >>
    /\ pc = "poll"
    /\ resource = "text"
    /\ operation = "translate"
    /\ continueOnFail = FALSE
    /\ nItems = 1
    /\ i = 0
    /\ trace = << Request("status", StatusCall(StatusEndpoint("translate", "t1"))) >>
    /\ calls = 1
    /\ pending = 0
    /\ taskId = <<"t1">>
    /\ envelope = <<>>
    /\ urls = <<>>
    /\ binaries = <<>>
    /\ itemError = <<>>
    /\ returnData = <<>>
    /\ thrown = <<>>
    /\ params = EmptyObject
    /\ wav = <<>>

\* the iteration of the loop runs on the payload: pollForResult returns it,
\* throws, or sleeps
StatusDispatch ==
    /\ pc = "poll"
    /\ LET d == pollForResultStep([threw |-> FALSE, value |-> last[1].outcome.response])
       IN  /\ envelope' = IF d.kind = "return" THEN << d.value >> ELSE <<>>
           /\ itemError' = IF d.kind = "throw" THEN << d.error >> ELSE <<>>
           /\ trace' = IF d.kind = "sleep" THEN Append(trace, Sleep(DefaultInterval))
                       ELSE trace
           /\ pc' = CASE d.kind = "return" -> "returned"
                      [] d.kind = "throw" -> "failed"
                      [] d.kind = "sleep" -> "sleep"
    /\ UNCHANGED <<resource, operation, continueOnFail, nItems, i, calls, last, pending,
                   taskId, urls, binaries, returnData, thrown, params, wav>>

StatusNext == StatusDispatch

StatusSpec == StatusInit /\ [][StatusNext]_vars

-----------------------------------------------------------------------------
(* cambAiApiRequest on its own *)

\* the options a caller passes: each transport option, the base marker and the
\* form present or not; the form is a FormData or a plain object
ClientOptions ==
    { Assign(Assign(Assign(Assign(Assign(t, e), f), j), b), d) :
        t \in { EmptyObject, [timeout |-> 60000] },
        e \in { EmptyObject, [encoding |-> "arraybuffer"] },
        f \in { EmptyObject, [returnFullResponse |-> TRUE] },
        j \in { EmptyObject, [json |-> TRUE], [json |-> FALSE] },
        b \in { EmptyObject, [baseURL |-> <<>>], [baseURL |-> <<"https://other.example">>] },
        d \in { EmptyObject, FormData({"media_file"}),
                [formData |-> [form |-> "Object", fields |-> {}]] } }

\* the arguments of a call of cambAiApiRequest
ClientArgs ==
    [method : {"GET", "POST"},
     endpoint : { <<"/translate">>, <<"https://cdn.example/fg.wav">> },
     body : { EmptyObject, [text |-> "text"] },
     qs : { EmptyObject, [data_type |-> "json"] },
     options : ClientOptions]

\* a caller is about to call cambAiApiRequest
ClientInit ==
    /\ params \in ClientArgs
    /\ pc = "client"
    /\ resource = "voice"
    /\ operation = "listVoices"
    /\ continueOnFail = FALSE
    /\ nItems = 1
    /\ i = 0
    /\ trace = <<>>
    /\ calls = 0
    /\ last = <<>>
    /\ pending = 0
    /\ taskId = <<>>
    /\ envelope = <<>>
    /\ urls = <<>>
    /\ binaries = <<>>
    /\ itemError = <<>>
    /\ returnData = <<>>
    /\ thrown = <<>>
    /\ wav = <<>>

\* the calls a caller makes with the same argument objects
MaxCalls == 2

\* the call builds its request and hands it to the transport; params keeps
\* the arguments as they were passed, envelope holds the caller's objects as
\* the call leaves them
ClientCall ==
    /\ pc = "client"
    /\ trace' = << Request("call", cambAiApiRequestCall(params.method, params.endpoint,
                                       params.body, params.qs, params.options)) >>
    /\ envelope' = << cambAiApiRequestArguments(params.body, params.qs, params.options) >>
    /\ calls' = 1
    /\ pc' = "await"
    /\ UNCHANGED <<resource, operation, continueOnFail, nItems, i, last, pending, taskId,
                   urls, binaries, itemError, returnData, thrown, params, wav>>

\* the caller calls again with the objects of the call before
ClientReuse ==
    /\ pc \in {"returned", "failed"}
    /\ calls < MaxCalls
    /\ trace' = Append(trace,
                    Request("call", cambAiApiRequestCall(params.method, params.endpoint,
                                        envelope[1].body, envelope[1].qs,
                                        envelope[1].options)))
    /\ envelope' = << cambAiApiRequestArguments(envelope[1].body, envelope[1].qs,
                                                envelope[1].options) >>
    /\ calls' = calls + 1
    /\ last' = <<>>
    /\ itemError' = <<>>
    /\ pc' = "await"
    /\ UNCHANGED <<resource, operation, continueOnFail, nItems, i, pending, taskId,
                   urls, binaries, returnData, thrown, params, wav>>

\* the transport answers or fails: the call returns or throws
ClientSettled ==
    /\ pc = "await"
    /\ \E outcome \in { Ok([body |-> AudioBytes]) } \cup Failures :
         LET r == cambAiApiRequestSettle(trace[Len(trace)], outcome)
         IN  /\ last' = << [role |-> "call", outcome |-> outcome] >>
             /\ trace' = trace \o r.retried
             /\ itemError' = IF r.threw THEN << r.error >> ELSE <<>>
             /\ pc' = IF r.threw THEN "failed" ELSE "returned"
    /\ UNCHANGED <<resource, operation, continueOnFail, nItems, i, calls, pending, taskId,
                   envelope, urls, binaries, returnData, thrown, params, wav>>

ClientNext ==
    \/ ClientCall
    \/ ClientSettled
    \/ ClientReuse

ClientSpec == ClientInit /\ [][ClientNext]_vars

-----------------------------------------------------------------------------
(* Vocabulary of the properties *)

Polling == pc \in {"poll", "sleep"}

\* the item loop is between two items, or execute has ended
Settled == pc \in {"item", "done", "aborted"}

\* the most recently settled request had the given role
LastRole(role) == last # <<>> /\ last[1].role = role

\* the most recently settled request was a status request answered with a payload
StatusRead == LastRole("status") /\ last[1].outcome.ok

\* the uppercase form of the status of the payload just read
ReadStatus == StatusOf(last[1].outcome.response)

\* the most recently settled request had the given role and failed in the transport
LastFailed(role) == LastRole(role) /\ ~last[1].outcome.ok

Polls == Count(trace, "status")
Sleeps == Count(trace, "sleep")

\* the events of the trace from the first status request on
RECURSIVE PollPart(_)
PollPart(tr) ==
    IF tr = <<>> THEN <<>>
    ELSE IF IsRole(tr[1], "status") THEN tr
    ELSE PollPart(Tail(tr))

\* tr is status request, sleep, status request, ..., ending with a status
\* request that no sleep follows, every sleep lasting ms
AlternatesUpTo(tr, n, ms) ==
    /\ n % 2 = 1
    /\ \A k \in 1..n :
         IF k % 2 = 1 THEN IsRole(tr[k], "status")
         ELSE IsSleep(tr[k]) /\ tr[k].ms = ms

\* the trace ends with a request of the given role
EndsWith(role) == trace # <<>> /\ IsRole(trace[Len(trace)], role)

\* the item the trace belongs to
TraceItem == IF pc \in {"item", "done"} THEN i - 1 ELSE i

-----------------------------------------------------------------------------
(* The poller *)

\* C1: when the status answers of an item are n open answers followed by
\* SUCCESS, the poller has issued n+1 status requests and slept n times, a sleep
\* after each open answer and none after SUCCESS, it has returned the whole
\* SUCCESS payload, and while that item lasts it neither polls nor sleeps again.
C1_SuccessReturnsEnvelope ==
    /\ (StatusRead /\ ReadStatus = SUCCESS) =>
          /\ envelope = << last[1].outcome.response >>
          /\ pc = "fetch"
          /\ EndsWith("result")
    /\ envelope # <<>> =>
          /\ StatusOf(envelope[1]) = SUCCESS
          /\ Has(envelope[1], "run_id")
          /\ ~Polling
          /\ Polls = pending + 1
          /\ Sleeps = pending
          /\ AlternatesUpTo(PollPart(trace), 2 * pending + 1, DefaultInterval)
          /\ \A k \in 1..Len(trace) : k > Len(trace) - Len(PollPart(trace)) + 2 * pending + 1
                => IsRequest(trace[k]) /\ trace[k].role \in {"result", "download"}

C1_Witness ==
    /\ envelope # <<>>
    /\ pending = 2
    /\ Sleeps = 2
    /\ Polls = 3
    /\ envelope[1].run_id = "r2"

\* C2: a status request that fails with a 404 does not end the poller: it
\* sleeps one interval and polls again.
C2_NotFoundKeepsPolling ==
    (LastFailed("status") /\ HasStatusCode(last[1].outcome.error, 404)) =>
        /\ Polling
        /\ itemError = <<>>
        /\ thrown = <<>>

\* C3: a status request that fails in the transport with a status other than
\* 404 ends the poller at once with the error the request client raised for it:
\* the item fails with that error, no sleep and no request follows the failed
\* status request, whatever number of open answers came before.
C3_TransportErrorEndsPolling ==
    (LastFailed("status") /\ ~HasStatusCode(last[1].outcome.error, 404)) =>
        /\ Settled
        /\ itemError # <<>>
        /\ itemError[1].name = "NodeApiError"
        /\ itemError[1].errorResponse = last[1].outcome.error
        /\ envelope = <<>>
        /\ EndsWith("status")
        /\ Polls = pending + 1
        /\ Sleeps = pending

C3_Witness ==
    /\ LastFailed("status")
    /\ HasStatusCode(last[1].outcome.error, 500)
    /\ pending = 2
    /\ Settled
    /\ itemError # <<>>

\* C4: when a status answer says PAYMENT_REQUIRED the poller fails with the
\* insufficient-credits error, after any number of open answers; it returns no
\* envelope and issues no further request.
C4_PaymentRequiredFails ==
    (StatusRead /\ ReadStatus = PAYMENT_REQUIRED) =>
        /\ Settled
        /\ itemError =
             << [name |-> "Error",
                 message |-> <<"Insufficient credits. Please check your Camb.ai account balance.">>] >>
        /\ envelope = <<>>
        /\ EndsWith("status")
        /\ Polls = pending + 1
        /\ Sleeps = pending

C4_Witness ==
    /\ StatusRead
    /\ ReadStatus = PAYMENT_REQUIRED
    /\ last[1].outcome.response.status # PAYMENT_REQUIRED
    /\ pending = 2
    /\ itemError # <<>>

\* C5: ERROR and FAILED end the poller with "Task failed: " followed by the
\* payload's message, else its error field, else 'Unknown error'; TIMEOUT ends
\* it with the server-timeout message; the error reaches the item unchanged and
\* neither a sleep nor a request follows the status request.
C5_FailureTerminals ==
    (StatusRead /\ ReadStatus \in {ERROR, FAILED, TIMEOUT}) =>
        LET payload == last[1].outcome.response
            reason == IF Has(payload, "message") /\ payload.message # <<>>
                      THEN payload.message
                      ELSE IF Has(payload, "error") /\ payload.error # <<>>
                      THEN payload.error
                      ELSE <<"Unknown error">>
        IN  /\ Settled
            /\ itemError =
                 << [name |-> "Error",
                     message |->
                       IF ReadStatus = TIMEOUT
                       THEN <<"Task timed out on the server. Try again or use smaller input.">>
                       ELSE <<"Task failed: ">> \o reason] >>
            /\ envelope = <<>>
            /\ EndsWith("status")
            /\ Polls = pending + 1
            /\ Sleeps = pending

C5_Witness ==
    /\ StatusRead
    /\ ReadStatus = ERROR
    /\ Has(last[1].outcome.response, "message")
    /\ last[1].outcome.response.message = <<>>
    /\ itemError # <<>>
    /\ itemError[1].message = <<"Task failed: ", "e">>
    /\ pending = 1

\* C6: a status answer whose status is PENDING, unrecognized, empty or missing
\* leaves the poller running: it neither returns nor fails, it sleeps one
\* interval and then polls again; the poller stops on an answer only when its
\* status is one of the five terminal ones.
C6_OtherStatusKeepsPolling ==
    StatusRead =>
        IF ReadStatus \in {SUCCESS, ERROR, FAILED, TIMEOUT, PAYMENT_REQUIRED}
        THEN ~Polling
        ELSE /\ Polling
             /\ itemError = <<>>
             /\ envelope = <<>>
             /\ LET n == Len(trace)
                IN  IF pc = "sleep"
                    THEN /\ IsSleep(trace[n]) /\ trace[n].ms = DefaultInterval
                         /\ IsRole(trace[n - 1], "status")
                    ELSE /\ IsRole(trace[n], "status")
                         /\ IsSleep(trace[n - 1]) /\ trace[n - 1].ms = DefaultInterval
                         /\ IsRole(trace[n - 2], "status")

C6_Witness ==
    /\ StatusRead
    /\ ~Has(last[1].outcome.response, "status")
    /\ pc = "poll"
    /\ Polls = 3


\* C7: when the remote concludes the task (a terminal status or a transport
\* failure other than 404 within its first MaxPolls answers) and every request
\* and sleep completes, a running poller eventually stops.
C7_PollerTerminates == Polling ~> ~Polling

C7_Witness ==
    /\ ~Polling
    /\ LastRole("status")
    /\ Sleeps = MaxPolls - 1
    /\ Polls = MaxPolls


-----------------------------------------------------------------------------
(* The asynchronous pipelines *)

\* the status path the branch of op polls, and the path it fetches its result from
C8_StatusPath(op) ==
    CASE op = "translatedTts" -> "/translated-tts/"
      [] op = "generateSound" -> "/text-to-sound/"
      [] op = "separateAudio" -> "/audio-separation/"
      [] op = "transcribe" -> "/transcribe/"
      [] op = "translate" -> "/translate/"
      [] op = "createVoice" -> "/text-to-voice/"

C8_ResultPath(op) ==
    CASE op = "translatedTts" -> "/tts-result/"
      [] op = "generateSound" -> "/text-to-sound-result/"
      [] op = "separateAudio" -> "/audio-separation-result/"
      [] op = "transcribe" -> "/transcription-result/"
      [] op = "translate" -> "/translation-result/"
      [] op = "createVoice" -> "/text-to-voice-result/"

\* C8: in an asynchronous operation the requests of an item are one submit,
\* then status requests (separated by sleeps) at the endpoint of the task id
\* the submit answered with, then one result fetch, issued right after the
\* status request that read SUCCESS, at the result endpoint of the run id of the
\* returned envelope; the record of a completed item holds that run id.
C8_SubmitPollFetchOrder ==
    (<<resource, operation>> \in Handlers /\ operation \in Asynchronous) =>
      /\ trace # <<>> => IsRole(trace[1], "submit") /\ Count(trace, "submit") = 1
      /\ (LastRole("submit") /\ last[1].outcome.ok) =>
            taskId = << last[1].outcome.response.task_id >>
      /\ (LastRole("status") /\ envelope # <<>>) =>
            last[1].outcome.ok /\ envelope[1] = last[1].outcome.response
      /\ \A k \in 1..Len(trace) :
           /\ IsRole(trace[k], "status") =>
                /\ taskId # <<>>
                /\ trace[k].request.url =
                     <<"https://client.camb.ai/apis", C8_StatusPath(operation), taskId[1]>>
                /\ IF k = 2 THEN IsRole(trace[1], "submit") ELSE IsSleep(trace[k - 1])
           /\ IsSleep(trace[k]) => IsRole(trace[k - 1], "status")
           /\ IsRole(trace[k], "result") =>
                /\ envelope # <<>>
                /\ StatusOf(envelope[1]) = SUCCESS
                /\ trace[k].request.url =
                     <<"https://client.camb.ai/apis", C8_ResultPath(operation),
                       envelope[1].run_id>>
                /\ IsRole(trace[k - 1], "status")
                /\ \A j \in 1..(k - 1) :
                     IsSleep(trace[j]) \/ trace[j].role \in {"submit", "status"}
                /\ \A j \in (k + 1)..Len(trace) : IsRole(trace[j], "download")
           /\ IsRole(trace[k], "download") => Count(trace, "result") = 1
      /\ (pc \in {"item", "done"} /\ i > 0 /\ itemError = <<>>) =>
            /\ Count(trace, "result") = 1
            /\ returnData # <<>>
            /\ LET record == returnData[Len(returnData)]
               IN  /\ record.pairedItem.item = i - 1
                   /\ record.json.runId = envelope[1].run_id
                   /\ record.json.taskId = taskId[1]

C8_Witness ==
    /\ operation = "generateSound"
    /\ pc = "done"
    /\ nItems = 2
    /\ itemError = <<>>
    /\ pending = 1
    /\ Len(returnData) = 2
    /\ Has(returnData[1].json, "runId")
    /\ returnData[1].json.runId = "r1"
    /\ returnData[2].json.runId = "r2"
    /\ returnData[2].json.taskId = "t2"
    /\ envelope[1].run_id = "r2"

\* C9: when a result fetch or an artifact download fails after the poller
\* returned, the item fails with the error the request client raised; the failed
\* request is the last one of the item (no second submit, no further status
\* request, no second attempt, no cleanup request) and the item gets no success
\* record.
C9_FetchFailureFailsItem ==
    (LastFailed("result") \/ LastFailed("download")) =>
        /\ Settled
        /\ envelope # <<>>
        /\ itemError # <<>>
        /\ itemError[1].name = "NodeApiError"
        /\ itemError[1].errorResponse = last[1].outcome.error
        /\ EndsWith(last[1].role)
        /\ Count(trace, "submit") = 1
        /\ Polls = pending + 1
        /\ Count(trace, "result") = 1
        /\ Count(trace, "download") = (IF LastFailed("result") THEN 0 ELSE Len(binaries) + 1)
        /\ \A j, k \in 1..Len(trace) :
             (j < k /\ IsRequest(trace[j]) /\ IsRequest(trace[k])
                /\ trace[j].role \notin {"status"})
                => trace[j].request.url # trace[k].request.url
        /\ \A k \in 1..Len(returnData) :
             returnData[k].pairedItem.item = TraceItem =>
                /\ DOMAIN returnData[k] = {"json", "pairedItem"}
                /\ returnData[k].json = [error |-> itemError[1].message]
        /\ IF continueOnFail
           THEN /\ thrown = <<>>
                /\ returnData # <<>>
                /\ returnData[Len(returnData)].pairedItem.item = TraceItem
           ELSE thrown = itemError

C9_Witness ==
    /\ LastFailed("download")
    /\ Len(binaries) = 1
    /\ Count(trace, "download") = 2
    /\ continueOnFail
    /\ pending = 1
    /\ Settled
    /\ itemError # <<>>

\* C10: every invocation of the request client issues one transport request;
\* the submit of an item is issued once; when the first request of an item (a
\* submit or a synchronous call) fails, with whatever status, the item fails
\* with the error raised for it and that request stays the item's only one.
C10_RequestClientNeverRetries ==
    /\ calls = Count(trace, "request")
    /\ Count(trace, "submit") <= 1
    /\ LastFailed("submit") =>
         /\ Settled
         /\ itemError # <<>>
         /\ itemError[1].name = "NodeApiError"
         /\ itemError[1].errorResponse = last[1].outcome.error
         /\ Len(trace) = 1
         /\ IsRole(trace[1], "submit")
         /\ envelope = <<>>
    /\ (LastRole("submit") /\ last[1].outcome.ok /\ operation \notin Asynchronous) =>
         /\ Settled
         /\ itemError = <<>>
         /\ Len(trace) = 1

C10_Witness ==
    /\ LastFailed("submit")
    /\ HasStatusCode(last[1].outcome.error, 404)
    /\ operation = "synthesize"
    /\ Settled
    /\ calls = 1
    /\ Len(trace) = 1
    /\ i = 2

-----------------------------------------------------------------------------
(* The request client *)

\* C11: a request the transport fails never returns a value and never lets
\* the transport's error through as it is: the item ends with a NodeApiError
\* that wraps it, whose message is the invalid-credentials one for 401, the
\* rate-limit one for 429, 'Bad request: ' followed by the upstream message (or
\* 'Invalid parameters') for 400, and none of these for any other or no status.
C11_TransportFailureIsClassified ==
    (last # <<>> /\ ~last[1].outcome.ok) =>
        LET err == last[1].outcome.error
            invalidKey == <<"Invalid API key. Please check your Camb.ai credentials.">>
            rateLimit == <<"Rate limit exceeded. Please wait before making more requests.">>
        IN  /\ Settled
            /\ itemError # <<>>
            /\ itemError[1] # err
            /\ itemError[1].name = "NodeApiError"
            /\ itemError[1].errorResponse = err
            /\ IF HasStatusCode(err, 401) THEN itemError[1].message = invalidKey
               ELSE IF HasStatusCode(err, 429) THEN itemError[1].message = rateLimit
               ELSE IF HasStatusCode(err, 400)
               THEN itemError[1].message =
                      IF Has(err, "message") /\ err.message # <<>>
                      THEN <<"Bad request: ">> \o err.message
                      ELSE <<"Bad request: ", "Invalid parameters">>
               ELSE /\ itemError[1].message \notin {invalidKey, rateLimit}
                    /\ itemError[1].message[1] # "Bad request: "

C11_Witness ==
    /\ LastFailed("result")
    /\ HasStatusCode(last[1].outcome.error, 400)
    /\ ~Has(last[1].outcome.error, "message")
    /\ itemError # <<>>
    /\ itemError[1].message = <<"Bad request: ", "Invalid parameters">>

\* C12: every request an item issues to the fixed base endpoint goes through
\* the authenticated transport with the credential 'cambAiApi', and every
\* download of an artifact goes to the URL the result lookup gave, as it is,
\* through the unauthenticated transport and with no credential.
C12_AuthenticatedExactlyAtBase ==
    \A k \in 1..Len(trace) :
        IsRequest(trace[k]) =>
            IF trace[k].role = "download"
            THEN /\ trace[k].transport = "httpRequest"
                 /\ trace[k].credential = <<>>
                 /\ urls # <<>>
                 /\ trace[k].request.url \in {urls[1], urls[2]}
                 /\ trace[k].request.url[1] # BASE_URL[1]
                 /\ ~Has(trace[k].request, "baseURL")
            ELSE /\ trace[k].transport = "httpRequestWithAuthentication"
                 /\ trace[k].credential = <<"cambAiApi">>
                 /\ trace[k].request.url[1] = BASE_URL[1]
                 /\ Len(trace[k].request.url) > 1

C12_Witness ==
    /\ operation = "separateAudio"
    /\ pc = "download2"
    /\ Len(trace) >= 5
    /\ trace[Len(trace)].transport = "httpRequest"
    /\ trace[Len(trace)].request.url = <<"https://cdn.example/bg.wav">>
    /\ trace[Len(trace) - 2].transport = "httpRequestWithAuthentication"

-----------------------------------------------------------------------------
(* Input validation *)

\* the item the loop is at or has just left was given to a branch of execute
ItemBegun == params # EmptyObject /\ <<resource, operation>> \in Handlers

\* C13: synthesize rejects the text of an item with the validation error
\* exactly when its length is below 3 or above 3000; a text of 3 or of 3000
\* characters passes the check and the request is sent.
C13_TextLengthBounds ==
    (ItemBegun /\ operation = "synthesize") =>
        LET rejected == << [name |-> "NodeOperationError",
                            message |-> <<"Text must be between 3 and 3000 characters">>,
                            itemIndex |-> TraceItem] >>
        IN  IF 3 <= params.textLength /\ params.textLength <= 3000
            THEN /\ itemError # rejected
                 /\ trace # <<>>
                 /\ IsRole(trace[1], "submit")
            ELSE /\ itemError = rejected
                 /\ Settled

C13_Witness ==
    /\ operation = "synthesize"
    /\ continueOnFail
    /\ pc = "submit"
    /\ params.textLength = 3000
    /\ Len(returnData) = 1
    /\ returnData[1].json = [error |-> <<"Text must be between 3 and 3000 characters">>]

\* C14: an item whose parameters fail the check of synthesize (text length) or
\* of createVoice (description length) has no request at all: the error is
\* raised before the first request and the item is over with it.
C14_ValidationBeforeAnyRequest ==
    /\ (ItemBegun /\ operation = "synthesize"
          /\ (params.textLength < 3 \/ params.textLength > 3000)) =>
            /\ Settled
            /\ trace = <<>>
            /\ calls = 0
            /\ last = <<>>
            /\ itemError # <<>>
            /\ itemError[1].name = "NodeOperationError"
    /\ (ItemBegun /\ operation = "createVoice" /\ params.descriptionLength < 100) =>
            /\ Settled
            /\ trace = <<>>
            /\ calls = 0
            /\ last = <<>>
            /\ itemError =
                 << [name |-> "NodeOperationError",
                     message |->
                       <<"Voice description must be at least 100 characters (18+ words)">>,
                     itemIndex |-> TraceItem] >>
    /\ (itemError # <<>> /\ itemError[1].name = "NodeOperationError") =>
            trace = <<>> /\ calls = 0

C14_Witness ==
    /\ operation = "createVoice"
    /\ params # EmptyObject
    /\ params.descriptionLength = 99
    /\ pc = "aborted"
    /\ trace = <<>>
    /\ thrown # <<>>
    /\ thrown[1].name = "NodeOperationError"

-----------------------------------------------------------------------------
(* The batch *)

\* execute is blocked on a request or on a sleep when control is at p
InFlight(p) == p \in {"submit", "poll", "sleep", "fetch", "download1", "download2"}

\* C15: the items are taken one at a time, in input order.  A step leaves the
\* loop index as it is or moves it to the next item, and moves it only when
\* the pipeline of the current item ends, without a new request.  The request
\* or sleep a step leaves in flight belongs to the item the loop is at: it is
\* the first request of that item, issued at the head of the loop when nothing
\* is in flight, or it follows the settled request or sleep of the same item.
C15_OneItemAtATime ==
    [][ /\ i' \in {i, i + 1}
        /\ i' = i + 1 =>
              /\ ~InFlight(pc')
              /\ pc' = (IF i + 1 < nItems THEN "item" ELSE "done")
              /\ trace' \in {trace, <<>>}
        /\ InFlight(pc') =>
              /\ i' = i
              /\ i < nItems
              /\ IF InFlight(pc)
                 THEN /\ Len(trace') = Len(trace) + 1
                      /\ SubSeq(trace', 1, Len(trace)) = trace
                 ELSE /\ pc = "item"
                      /\ Len(trace') = 1
                      /\ IsRole(trace'[1], "submit")
        /\ ~InFlight(pc) => pc = "item"
      ]_vars

C15_Witness ==
    /\ nItems = 2
    /\ i = 1
    /\ pc = "sleep"
    /\ Len(returnData) = 1
    /\ returnData[1].pairedItem.item = 0
    /\ Has(returnData[1].json, "runId")

\* C16: with continue-on-fail an item that fails, at whatever point, gets one
\* record and no other: the error's message and the item's index, no binary
\* data; the loop goes on with the next item, and execute never throws.
C16_ContinueOnFailRecordsError ==
    continueOnFail =>
        /\ thrown = <<>>
        /\ pc # "aborted"
        /\ itemError # <<>> =>
              /\ pc = (IF i < nItems THEN "item" ELSE "done")
              /\ returnData # <<>>
              /\ returnData[Len(returnData)] =
                    [json |-> [error |-> itemError[1].message],
                     pairedItem |-> [item |-> i - 1]]
              /\ \A k \in 1..(Len(returnData) - 1) :
                    returnData[k].pairedItem.item < i - 1

C16_Witness ==
    /\ continueOnFail
    /\ pc = "done"
    /\ itemError = <<>>
    /\ Len(returnData) = 2
    /\ returnData[1] = [json |-> [error |-> <<"Task failed: ", "Unknown error">>],
                        pairedItem |-> [item |-> 0]]
    /\ Has(returnData[2].json, "runId")
    /\ returnData[2].pairedItem.item = 1

\* C17: without continue-on-fail the first item that fails ends execute: it
\* throws that item's error, nothing is returned (the records of the items that
\* succeeded before are lost with it), and no step follows, so no later item
\* gets a request.  Until then no item has failed.
C17_FirstFailureAborts ==
    ~continueOnFail =>
        /\ itemError # <<>> =>
              /\ pc = "aborted"
              /\ i < nItems
        /\ pc = "aborted" =>
              /\ thrown = itemError
              /\ thrown # <<>>
              /\ Returned = <<>>
              /\ ~ENABLED Next
        /\ \A k \in 1..Len(returnData) : ~Has(returnData[k].json, "error")
        /\ pc # "aborted" => thrown = <<>>

C17_Witness ==
    /\ pc = "aborted"
    /\ nItems = 2
    /\ i = 1
    /\ Len(returnData) = 1
    /\ Has(returnData[1].json, "runId")
    /\ LastFailed("result")

\* C18: in every operation of the node each record carries the index of the
\* item whose pipeline pushed it, and the records are in the order of their
\* items.  Every operation but listVoices pushes one record per item that ended
\* without aborting execute, the k-th record being the one of item k - 1, so a
\* batch completed with continue-on-fail holds one record per input item;
\* listVoices pushes one record per voice of the answer, all with the index of
\* the item that asked.
C18_PairedItemFollowsInput ==
    (<<resource, operation>> \in Handlers) =>
        /\ \A k \in 1..Len(returnData) :
              /\ returnData[k].pairedItem.item >= 0
              /\ returnData[k].pairedItem.item < i
              /\ k > 1 => returnData[k - 1].pairedItem.item <= returnData[k].pairedItem.item
        /\ operation # "listVoices" =>
              /\ Len(returnData) = i
              /\ \A k \in 1..Len(returnData) : returnData[k].pairedItem.item = k - 1
              /\ (pc = "done" /\ continueOnFail) => Len(returnData) = nItems
        /\ (operation = "listVoices" /\ LastRole("submit") /\ last[1].outcome.ok) =>
              LET voices == last[1].outcome.response
                  before == Len(returnData) - Len(voices)
              IN  /\ pc \in {"item", "done"}
                  /\ before >= 0
                  /\ \A k \in 1..Len(voices) :
                        returnData[before + k] =
                          [json |-> voices[k], pairedItem |-> [item |-> i - 1]]
                  /\ \A k \in 1..before : returnData[k].pairedItem.item < i - 1
        /\ (operation = "listVoices" /\ itemError # <<>> /\ continueOnFail) =>
              /\ returnData # <<>>
              /\ returnData[Len(returnData)].pairedItem.item = i - 1

C18_Witness ==
    /\ operation = "listVoices"
    /\ pc = "done"
    /\ nItems = 2
    /\ Len(returnData) = 3
    /\ returnData[1].pairedItem.item = 0
    /\ returnData[2].pairedItem.item = 0
    /\ returnData[3] = [json |-> [error |-> <<"upstream message">>],
                        pairedItem |-> [item |-> 1]]

-----------------------------------------------------------------------------
(* The WAV header *)

\* buf.readUInt32LE(offset), buf.readUInt16LE(offset)
ReadUInt32LE(buf, offset) ==
    [hi |-> buf[offset + 4],
     lo |-> buf[offset + 1] + 256 * buf[offset + 2] + 65536 * buf[offset + 3]]
ReadUInt16LE(buf, offset) == [hi |-> 0, lo |-> buf[offset + 1] + 256 * buf[offset + 2]]

\* the four fields of the header the claim names have the values it gives
C19_Fields(args, header) ==
    /\ Len(header) = 44
    /\ ReadUInt32LE(header, 4) = Plus(Number(36), args.dataLength)
    /\ ReadUInt32LE(header, 28) =
         Times(args.sampleRate, args.numChannels * (args.bitsPerSample \div 8))
    /\ ReadUInt16LE(header, 32) = Number(args.numChannels * (args.bitsPerSample \div 8))
    /\ ReadUInt32LE(header, 40) = args.dataLength

\* 36 + dataLength and the byte rate both fit an unsigned 32-bit field
C19_Fits(args) ==
    /\ Plus(Number(36), args.dataLength).hi < 256
    /\ Times(args.sampleRate, args.numChannels * (args.bitsPerSample \div 8)).hi < 256

\* C19 as stated: for every dataLength >= 0, sampleRate > 0, 1 or 2 channels
\* and 8, 16 or 24 bits, generateWavHeader returns 44 bytes whose file size,
\* byte rate, block align and data length fields are 36 + dataLength,
\* sampleRate * numChannels * bitsPerSample / 8, numChannels * bitsPerSample / 8
\* and dataLength.
C19_HeaderForEveryInput ==
    (pc = "done" /\ wav # <<>>) =>
        /\ ~wav[1].result.threw
        /\ C19_Fields(wav[1].args, wav[1].result.value)

\* C19 as amended: the same, for the inputs whose 36 + dataLength and byte
\* rate are at most 2^32 - 1.
C19_HeaderWithin32Bits ==
    (pc = "done" /\ wav # <<>> /\ C19_Fits(wav[1].args)) =>
        /\ ~wav[1].result.threw
        /\ C19_Fields(wav[1].args, wav[1].result.value)

C19_Witness ==
    /\ pc = "done"
    /\ wav # <<>>
    /\ wav[1].args.dataLength = [hi |-> 255, lo |-> Limb - 37]
    /\ wav[1].args.sampleRate = Number(715827882)
    /\ wav[1].args.numChannels = 2
    /\ wav[1].args.bitsPerSample = 24
    /\ ~wav[1].result.threw
    /\ SubSeq(wav[1].result.value, 5, 8) = <<255, 255, 255, 255>>
    /\ SubSeq(wav[1].result.value, 29, 32) = <<252, 255, 255, 255>>

\* C20: synthesize calls generateWavHeader exactly when the output format is
\* pcm_s16le, with the length of the fetched bytes, the sample rate of the
\* model, one channel and 16 bits; the stored payload is then the header
\* followed by the fetched bytes, it starts with 'RIFF', its data-length field
\* is the raw length, and its length and the reported size are the raw length
\* plus 44 (1044 for 1000 bytes).  For any other format the payload is the
\* fetched bytes and the reported size their length, and generateWavHeader is
\* not called.
C20_HeaderExactlyForRawPcm ==
    /\ wav # <<>> =>
          /\ operation = "synthesize"
          /\ params.outputFormat = "pcm_s16le"
          /\ LastRole("submit")
          /\ last[1].outcome.ok
    /\ (ItemBegun /\ operation = "synthesize" /\ LastRole("submit") /\ last[1].outcome.ok) =>
          /\ pc \in {"item", "done"}
          /\ itemError = <<>>
          /\ returnData # <<>>
          /\ LET raw == last[1].outcome.response.body
                 record == returnData[Len(returnData)]
                 payload == record.binary[PropertyName]
             IN  /\ record.pairedItem.item = i - 1
                 /\ record.json.size = Len(payload)
                 /\ IF params.outputFormat = "pcm_s16le"
                    THEN /\ Len(wav) = 1
                         /\ wav[1].args =
                              [dataLength |-> Number(Len(raw)),
                               sampleRate |-> Number(IF params.model = "mars-pro"
                                                     THEN 48000 ELSE 22050),
                               numChannels |-> 1, bitsPerSample |-> 16]
                         /\ ~wav[1].result.threw
                         /\ payload = wav[1].result.value \o raw
                         /\ Len(payload) = Len(raw) + 44
                         /\ Len(raw) = 1000 => record.json.size = 1044
                         /\ SubSeq(payload, 1, 4) = <<82, 73, 70, 70>>
                         /\ ReadUInt32LE(payload, 40) = Number(Len(raw))
                         /\ SubSeq(payload, 45, Len(payload)) = raw
                    ELSE /\ wav = <<>>
                         /\ payload = raw

C20_Witness ==
    /\ operation = "synthesize"
    /\ pc = "done"
    /\ nItems = 2
    /\ Len(returnData) = 2
    /\ Has(returnData[1], "binary")
    /\ Has(returnData[2], "binary")
    /\ returnData[1].json.outputFormat = "flac"
    /\ returnData[1].json.size = 1000
    /\ returnData[2].json.outputFormat = "pcm_s16le"
    /\ returnData[2].json.size = 1044
    /\ wav # <<>>


-----------------------------------------------------------------------------
(* The status dispatch *)

\* C21: what the poller does with a status answer depends on the upper-case
\* form of its status only: the answer leads to the transition (return, the
\* same failure, or sleep) that the same answer with its status in upper case
\* leads to; 'success', 'Success' and 'SUCCESS' end the poller with the payload
\* and every spelling of 'pending' keeps it polling.
C21_OutcomeFollowsUppercasedStatus ==
    (pc # "poll" /\ LastRole("status") /\ last[1].outcome.ok) =>
        LET p == last[1].outcome.response
            upper == toUpperCase(p.status)
            d == pollForResultStep([threw |-> FALSE,
                                    value |-> [p EXCEPT !.status = upper]])
        IN  /\ pc = (CASE d.kind = "return" -> "returned"
                       [] d.kind = "throw" -> "failed"
                       [] d.kind = "sleep" -> "sleep")
            /\ d.kind = "throw" => itemError = << d.error >>
            /\ d.kind = "return" => envelope = << p >>
            /\ upper = SUCCESS => pc = "returned"
            /\ upper \in {PENDING, <<"Q","U","E","U","E","D">>, <<>>} =>
                  /\ pc = "sleep"
                  /\ trace[Len(trace)] = Sleep(DefaultInterval)
            /\ upper \in {ERROR, FAILED, TIMEOUT, PAYMENT_REQUIRED} => pc = "failed"

C21_Witness ==
    /\ pc = "returned"
    /\ last[1].outcome.response.status = <<"S","u","c","c","e","s","s">>
    /\ envelope = << last[1].outcome.response >>

-----------------------------------------------------------------------------
(* The polling loop *)

\* C22: the loop of the poller has no iteration cap and no deadline: as long
\* as the status answers are open ones (a non-terminal status) or 404 failures,
\* the poller neither returns nor fails, it sleeps and polls again, and the
\* item it runs for does not end.
C22_OpenAnswersNeverEndPolling ==
    (LastRole("status") /\ ~Conclusive(last[1].outcome)) =>
        /\ Polling
        /\ envelope = <<>>
        /\ itemError = <<>>
        /\ thrown = <<>>
        /\ i < nItems
        /\ IF pc = "sleep" THEN IsSleep(trace[Len(trace)])
           ELSE IsRole(trace[Len(trace)], "status")

\* C23: between two consecutive status requests of an item there is one sleep
\* and nothing else, a sleep comes only after a status request, and every sleep
\* lasts the 3000 ms of the default interval, however many came before it.
C23_OneFixedSleepBetweenPolls ==
    \A k \in 1..Len(trace) :
        /\ IsSleep(trace[k]) =>
              /\ trace[k].ms = 3000
              /\ trace[k].ms = DefaultInterval
              /\ k > 1
              /\ IsRole(trace[k - 1], "status")
              /\ k < Len(trace) => IsRole(trace[k + 1], "status")
              /\ k = Len(trace) => pc = "sleep"
        /\ (IsRole(trace[k], "status") /\ k < Len(trace)) => ~IsRole(trace[k + 1], "status")
        /\ (IsRole(trace[k], "status") /\ k > 2) =>
              /\ IsSleep(trace[k - 1])
              /\ IsRole(trace[k - 2], "status")

C23_Witness ==
    /\ pc = "fetch"
    /\ Len(trace) = 7
    /\ IsRole(trace[2], "status")
    /\ trace[3] = Sleep(3000)
    /\ IsRole(trace[4], "status")
    /\ trace[5] = Sleep(3000)
    /\ IsRole(trace[6], "status")

-----------------------------------------------------------------------------
(* The request a call of cambAiApiRequest builds *)

\* the request handed to the transport, once the call has built it
Built == trace[1].request

TransportOptions == {"timeout", "encoding", "returnFullResponse", "json"}

\* the caller supplied a multipart form
FormSupplied ==
    Has(params.options, "formData") /\ params.options.formData.form = "FormData"

C26_FormReplacesStructuredBody ==
    pc # "client" =>
        IF FormSupplied
        THEN /\ Has(Built, "body")
             /\ Built.body = params.options.formData
             /\ Built.json = FALSE
        ELSE /\ Has(Built, "body") <=> DOMAIN params.body # {}
             /\ Has(Built, "body") => Built.body = params.body
             /\ ~Has(params.options, "json") => Built.json = TRUE

C26_Witness ==
    /\ pc = "await"
    /\ FormSupplied
    /\ DOMAIN params.body # {}
    /\ Has(params.options, "json")
    /\ params.options.json = TRUE
    /\ Built.json = FALSE
    /\ Built.body = [form |-> "FormData", fields |-> {"media_file"}]

-----------------------------------------------------------------------------
(* createVoice and synthesize *)

\* C27: createVoice rejects the description of an item with the validation
\* error exactly when it is shorter than 100 characters: 99 characters are
\* rejected before any request, 100 pass the check and the request is sent.
C27_DescriptionLengthBound ==
    (ItemBegun /\ operation = "createVoice") =>
        LET rejected ==
              << [name |-> "NodeOperationError",
                  message |->
                    <<"Voice description must be at least 100 characters (18+ words)">>,
                  itemIndex |-> TraceItem] >>
        IN  IF params.descriptionLength >= 100
            THEN /\ itemError # rejected
                 /\ trace # <<>>
                 /\ IsRole(trace[1], "submit")
                 /\ trace[1].request.url = <<"https://client.camb.ai/apis", "/text-to-voice">>
            ELSE /\ itemError = rejected
                 /\ Settled
                 /\ trace = <<>>

C27_Witness ==
    /\ operation = "createVoice"
    /\ continueOnFail
    /\ pc = "poll"
    /\ i = 1
    /\ params.descriptionLength = 100
    /\ Len(returnData) = 1
    /\ returnData[1].json =
          [error |-> <<"Voice description must be at least 100 characters (18+ words)">>]

-----------------------------------------------------------------------------
(* The range of the WAV header fields *)

\* the values generateWavHeader writes into its 32-bit fields for args
C28_Wide(args) ==
    [fileSize |-> Plus(Number(36), args.dataLength),
     sampleRate |-> args.sampleRate,
     byteRate |-> Times(args.sampleRate, args.numChannels * (args.bitsPerSample \div 8)),
     dataLength |-> args.dataLength]

\* each of them is at most 2^32 - 1
C28_InRange(args) == \A f \in DOMAIN C28_Wide(args) : C28_Wide(args)[f].hi < 256

\* every field of the header reads back as the value written to it
C28_FieldsExact(args, header) ==
    /\ Len(header) = 44
    /\ ReadUInt32LE(header, 4) = C28_Wide(args).fileSize
    /\ ReadUInt16LE(header, 22) = Number(args.numChannels)
    /\ ReadUInt32LE(header, 24) = C28_Wide(args).sampleRate
    /\ ReadUInt32LE(header, 28) = C28_Wide(args).byteRate
    /\ ReadUInt16LE(header, 32) = Number(args.numChannels * (args.bitsPerSample \div 8))
    /\ ReadUInt16LE(header, 34) = Number(args.bitsPerSample)
    /\ ReadUInt32LE(header, 40) = C28_Wide(args).dataLength

-----------------------------------------------------------------------------
(* The outputs of synthesize, separateAudio and createVoice *)

\* C29: when synthesize wraps raw PCM, generateWavHeader is called with the
\* rate of the model of that item, 48000 for mars-pro and 22050 for mars-flash,
\* mars-instruct and any other model, with one channel and 16 bits, and these
\* are the values in the header of the stored payload; the model of another
\* item of the batch does not matter.
C29_HeaderRateOfOwnModel ==
    (ItemBegun /\ operation = "synthesize" /\ LastRole("submit") /\ last[1].outcome.ok
       /\ params.outputFormat = "pcm_s16le") =>
        LET rate == CASE params.model = "mars-flash" -> 22050
                      [] params.model = "mars-pro" -> 48000
                      [] params.model = "mars-instruct" -> 22050
                      [] OTHER -> 22050
            payload == returnData[Len(returnData)].binary[PropertyName]
        IN  /\ Len(wav) = 1
            /\ wav[1].args.sampleRate = Number(rate)
            /\ wav[1].args.numChannels = 1
            /\ wav[1].args.bitsPerSample = 16
            /\ returnData[Len(returnData)].pairedItem.item = i - 1
            /\ ReadUInt16LE(payload, 22) = Number(1)
            /\ ReadUInt32LE(payload, 24) = Number(rate)
            /\ ReadUInt32LE(payload, 28) = Number(2 * rate)
            /\ ReadUInt16LE(payload, 34) = Number(16)

C29_Witness ==
    /\ operation = "synthesize"
    /\ pc = "done"
    /\ nItems = 2
    /\ params.model = "mars-next"
    /\ params.outputFormat = "pcm_s16le"
    /\ Len(returnData) = 2
    /\ Has(returnData[1], "binary")
    /\ Has(returnData[2], "binary")
    /\ returnData[1].json.outputFormat = "pcm_s16le"
    /\ ReadUInt32LE(returnData[1].binary[PropertyName], 24) = Number(48000)
    /\ ReadUInt32LE(returnData[2].binary[PropertyName], 24) = Number(22050)

\* C30: separateAudio and createVoice put their two downloads into one record,
\* the first (foreground stem, preview 1) under the chosen name and the second
\* (background stem, preview 2) under that name followed by '_background' or
\* '_preview2'.  The record is pushed when the second download has succeeded:
\* a record holds both binaries or, for a failed item, none, and while a
\* download is in flight the item has no record.
C30_BothBinariesOrNone ==
    (<<resource, operation>> \in Handlers /\ operation \in TwoDownloads) =>
        LET second == IF operation = "separateAudio" THEN <<"data", "_background">>
                      ELSE <<"data", "_preview2">>
            stored == IF operation = "separateAudio" THEN << <<1, 1>>, <<2, 2, 2>> >>
                      ELSE << <<3>>, <<4, 4, 4, 4>> >>
        IN  /\ \A k \in 1..Len(returnData) :
                  IF Has(returnData[k], "binary")
                  THEN /\ DOMAIN returnData[k].binary = { <<"data">>, second }
                       /\ returnData[k].binary[<<"data">>] = stored[1]
                       /\ returnData[k].binary[second] = stored[2]
                       /\ ~Has(returnData[k].json, "error")
                  ELSE Has(returnData[k].json, "error")
            /\ pc \in {"download1", "download2"} =>
                  /\ \A k \in 1..Len(returnData) : returnData[k].pairedItem.item < i
                  /\ Len(binaries) = (IF pc = "download1" THEN 0 ELSE 1)
            /\ (returnData # <<>> /\ Has(returnData[Len(returnData)], "binary")
                  /\ returnData[Len(returnData)].pairedItem.item = TraceItem) =>
                  /\ Settled
                  /\ LastRole("download")
                  /\ last[1].outcome.ok
                  /\ binaries = stored
                  /\ Count(trace, "download") = 2
            /\ LastFailed("download") =>
                  \A k \in 1..Len(returnData) :
                      returnData[k].pairedItem.item = TraceItem =>
                          ~Has(returnData[k], "binary")

C30_Witness ==
    /\ operation = "createVoice"
    /\ pc = "done"
    /\ nItems = 2
    /\ Len(returnData) = 2
    /\ ~Has(returnData[1], "binary")
    /\ Has(returnData[2], "binary")
    /\ returnData[2].binary[<<"data">>] = <<3>>
    /\ returnData[2].binary[<<"data", "_preview2">>] = <<4, 4, 4, 4>>
    /\ Len(binaries) = 2

-----------------------------------------------------------------------------
(* Deadlines *)

\* C31 as stated: every submit call and every synchronous call carries a
\* timeout (60 s for synthesize, with the binary response options), and no
\* status request carries one.
C31_SubmitCallsCarryTimeout ==
    \A k \in 1..Len(trace) :
        IsRequest(trace[k]) =>
            /\ trace[k].role = "submit" => Has(trace[k].request, "timeout")
            /\ (trace[k].role = "submit" /\ operation = "synthesize") =>
                  /\ trace[k].request.timeout = 60000
                  /\ trace[k].request.encoding = "arraybuffer"
            /\ trace[k].role = "status" => ~Has(trace[k].request, "timeout")

\* C31 as amended: the synthesize call is the only request with a timeout,
\* 60 s, together with the binary response options; no other submit or
\* synchronous call, no status request, no result fetch and no download
\* carries one.
C31_OnlySynthesisCarriesTimeout ==
    \A k \in 1..Len(trace) :
        IsRequest(trace[k]) =>
            IF trace[k].role = "submit" /\ operation = "synthesize"
            THEN /\ trace[k].request.timeout = 60000
                 /\ trace[k].request.encoding = "arraybuffer"
                 /\ trace[k].request.returnFullResponse = TRUE
                 /\ trace[k].request.json = FALSE
            ELSE ~Has(trace[k].request, "timeout")

C31_Witness ==
    /\ operation = "synthesize"
    /\ pc = "submit"
    /\ i = 1
    /\ Len(trace) = 1
    /\ trace[1].request.url = <<"https://client.camb.ai/apis", "/tts-stream">>
    /\ trace[1].request.timeout = 60000

-----------------------------------------------------------------------------
(* A pair without a branch *)

\* C35: for a (resource, operation) pair no branch matches, every item is
\* passed over silently: no request is issued, no output record and no error
\* record is produced, nothing is thrown, and execute returns one empty list.
C35_UnmatchedPairSkipsSilently ==
    <<resource, operation>> \in Unmatched =>
        /\ trace = <<>>
        /\ calls = 0
        /\ returnData = <<>>
        /\ itemError = <<>>
        /\ thrown = <<>>
        /\ pc \in {"item", "done"}
        /\ pc = "done" => i = nItems /\ Returned = << << <<>> >> >>

C35_Witness ==
    /\ resource = "audio"
    /\ operation = "translate"
    /\ nItems = 2
    /\ i = 2
    /\ pc = "done"
    /\ returnData = <<>>
    /\ Returned = << << <<>> >> >>

-----------------------------------------------------------------------------
(* cloneVoice *)

\* C36: cloneVoice is synchronous.  An item issues at most one request, and
\* exactly one once its parameters passed the checks: an authenticated
\* multipart POST to the custom-voice creation endpoint.  The poller is never
\* entered, no follow-up request is issued, and the one record the item pushes
\* is the response of that request under the item's index.
C36_CloneVoiceIsOneRequest ==
    operation = "cloneVoice" =>
        /\ pc \in {"item", "submit", "done", "aborted"}
        /\ taskId = <<>> /\ pending = 0 /\ envelope = <<>> /\ urls = <<>>
        /\ Len(trace) <= 1
        /\ calls = Len(trace)
        /\ pc = "submit" => Len(trace) = 1
        /\ (i > 0 /\ itemError = <<>> /\ pc \in {"item", "done"}) => Len(trace) = 1
        /\ \A k \in 1..Len(trace) :
              /\ IsRole(trace[k], "submit")
              /\ trace[k].transport = "httpRequestWithAuthentication"
              /\ trace[k].credential = <<"cambAiApi">>
              /\ trace[k].request.method = "POST"
              /\ trace[k].request.url = BASE_URL \o <<"/create-custom-voice">>
              /\ trace[k].request.json = FALSE
              /\ InstanceOfFormData(trace[k].request.body)
        /\ (last # <<>> /\ last[1].outcome.ok) =>
              /\ returnData # <<>>
              /\ returnData[Len(returnData)].pairedItem = [item |-> i - 1]
              /\ LET json == returnData[Len(returnData)].json
                     response == last[1].outcome.response
                 IN  /\ DOMAIN json =
                           DOMAIN response \cup {"voiceId", "voiceName", "gender", "age"}
                     /\ json.voiceId = response.voice_id
                     /\ \A key \in DOMAIN response : json[key] = response[key]
              /\ Cardinality({ k \in 1..Len(returnData) :
                                 returnData[k].pairedItem.item = i - 1 }) = 1

C36_Witness ==
    /\ operation = "cloneVoice"
    /\ pc = "done"
    /\ nItems = 2
    /\ Len(returnData) = 2
    /\ Len(trace) = 1
    /\ last # <<>> /\ last[1].outcome.ok
    /\ returnData[2].json.voiceId = last[1].outcome.response.voice_id
    /\ returnData[2].pairedItem.item = 1

-----------------------------------------------------------------------------
(* The follow-up requests of separateAudio and createVoice *)

\* the requests of the item that follow its poller
C33_FollowUps ==
    SelectSeq(trace, LAMBDA e : IsRequest(e) /\ e.role \in {"result", "download"})

\* the first and the second URL a result lookup names
C33_FirstUrl(result) ==
    IF operation = "separateAudio" THEN result.foreground_audio_url
    ELSE result.previews[1]

C33_SecondUrl(result) ==
    IF operation = "separateAudio" THEN result.background_audio_url
    ELSE result.previews[2]

\* C33: in separateAudio and createVoice the follow-up requests of an item
\* come in a fixed order at the end of its requests: the authenticated result
\* lookup on the base endpoint by run_id, then the unauthenticated download of
\* the first URL (foreground, preview 1), then of the second one (background,
\* preview 2).  Both URLs are those of the item's own result lookup, and when
\* a request fails it is the last request of the item.
C33_FollowUpsInOrder ==
    operation \in TwoDownloads =>
        LET F == C33_FollowUps
            n == Len(trace)
        IN  /\ Len(F) <= 3
            /\ \A k \in 1..Len(F) : trace[n - Len(F) + k] = F[k]
            /\ Len(F) >= 1 =>
                  /\ F[1].role = "result"
                  /\ F[1].transport = "httpRequestWithAuthentication"
                  /\ F[1].credential = <<"cambAiApi">>
                  /\ envelope # <<>>
                  /\ F[1].request.url =
                        BASE_URL \o <<(IF operation = "separateAudio"
                                       THEN "/audio-separation-result/"
                                       ELSE "/text-to-voice-result/"),
                                      envelope[1].run_id>>
            /\ (Len(F) >= 2) = (urls # <<>>)
            /\ Len(F) >= 2 =>
                  /\ \E result \in ResultResponses(operation) :
                        urls = <<C33_FirstUrl(result), C33_SecondUrl(result)>>
                  /\ F[2].role = "download"
                  /\ F[2].transport = "httpRequest"
                  /\ F[2].credential = <<>>
                  /\ F[2].request.url = urls[1]
            /\ pc = "download1" =>
                  /\ Len(F) = 2
                  /\ last[1].role = "result" /\ last[1].outcome.ok
                  /\ F[2].request.url = C33_FirstUrl(last[1].outcome.response)
                  /\ urls[2] = C33_SecondUrl(last[1].outcome.response)
            /\ Len(F) = 3 =>
                  /\ F[3].role = "download"
                  /\ F[3].transport = "httpRequest"
                  /\ F[3].credential = <<>>
                  /\ F[3].request.url = urls[2]
                  /\ Len(binaries) >= 1
            /\ pc = "fetch" => Len(F) = 1
            /\ pc = "download2" => Len(F) = 3
            /\ (last # <<>> /\ ~last[1].outcome.ok) =>
                  /\ pc \in {"item", "done", "aborted"}
                  /\ IsRequest(trace[n])
                  /\ last[1].role = "result" => Len(F) = 1
                  /\ (last[1].role = "download" /\ binaries = <<>>) => Len(F) = 2
                  /\ last[1].role \in {"submit", "status"} => Len(F) = 0

\* the first download of a separateAudio item has failed after its result
\* lookup answered: the second download was not issued
C33_Witness ==
    /\ operation = "separateAudio"
    /\ Len(C33_FollowUps) = 2
    /\ last # <<>> /\ ~last[1].outcome.ok /\ last[1].role = "download"
    /\ urls = << <<"https://cdn.example/fg.wav">>, <<"https://cdn.example/bg.wav">> >>
    /\ trace[Len(trace)].request.url = <<"https://cdn.example/fg.wav">>
    /\ binaries = <<>>
    /\ itemError # <<>>

-----------------------------------------------------------------------------
(* generateSound and the output format *)

\* the label pair generateSound gives to a payload of the output format
C34_Labels(outputFormat) ==
    CASE outputFormat = "wav" -> <<"audio/wav", "wav">>
      [] outputFormat = "flac" -> <<"audio/flac", "flac">>
      [] outputFormat = "adts" -> <<"audio/aac", "aac">>
      [] outputFormat = "pcm_s16le" -> <<"audio/wav", "wav">>

\* C34: generateSound never calls generateWavHeader and sends the output
\* format in no request: its requests carry the prompt, the audio type and the
\* duration only.  Whatever the format, the stored bytes are the fetched bytes
\* and size is their number; the format picks the MIME type and the file
\* extension alone, so a pcm_s16le payload is labelled audio/wav and has no
\* header put in front.
C34_SoundBytesPassThrough ==
    operation = "generateSound" =>
        /\ wav = <<>>
        /\ \A k \in 1..Len(trace) :
              IsRequest(trace[k]) =>
                 /\ ~Has(trace[k].request, "qs")
                 /\ Has(trace[k].request, "body") =>
                       /\ trace[k].role = "submit"
                       /\ DOMAIN trace[k].request.body =
                             {"prompt", "audio_type", "duration"}
                 /\ \A f \in SoundFormats :
                       /\ \A j \in 1..Len(trace[k].request.url) :
                             trace[k].request.url[j] # f
                       /\ Has(trace[k].request, "body") =>
                             \A key \in DOMAIN trace[k].request.body :
                                trace[k].request.body[key] # f
                 /\ DOMAIN trace[k].request \subseteq
                       {"method", "url", "json", "body", "encoding", "returnFullResponse"}
        /\ (ItemBegun /\ LastRole("result") /\ last[1].outcome.ok) =>
              LET record == returnData[Len(returnData)]
                  stored == record.binary[PropertyName]
                  labels == C34_Labels(params.outputFormat)
              IN  /\ record.pairedItem = [item |-> i - 1]
                  /\ stored.data = last[1].outcome.response.body
                  /\ record.json.size = Len(last[1].outcome.response.body)
                  /\ stored.mimeType = labels[1]
                  /\ stored.fileName = <<"sound_", taskId[1], ".", labels[2]>>

\* a batch of two sounds, the first in ADTS and the second in raw PCM
C34_Witness ==
    /\ operation = "generateSound"
    /\ pc = "done"
    /\ Len(returnData) = 2
    /\ params.outputFormat = "pcm_s16le"
    /\ wav = <<>>
    /\ \A k \in 1..2 : Has(returnData[k], "binary")
    /\ returnData[1].binary[PropertyName].mimeType = "audio/aac"
    /\ returnData[1].binary[PropertyName].fileName = <<"sound_", "t1", ".", "aac">>
    /\ returnData[2].binary[PropertyName].mimeType = "audio/wav"
    /\ returnData[2].binary[PropertyName].data = AudioBytes
    /\ returnData[2].json.size = Len(AudioBytes)

-----------------------------------------------------------------------------
(* What a call of cambAiApiRequest does to its arguments *)

\* C37: cambAiApiRequest changes one thing in the objects it is passed: once
\* it was called, whether it returns or fails, the caller's options have no
\* baseURL key; every other key of options (formData among them) has the
\* value it was passed with, and body and qs are as they were.  A second call
\* with the same options object goes to the fixed base endpoint through the
\* authenticated transport.
C37_OnlyBaseUrlIsDeleted ==
    pc # "client" =>
        /\ envelope # <<>>
        /\ LET after == envelope[1]
           IN  /\ ~Has(after.options, "baseURL")
               /\ DOMAIN after.options = DOMAIN params.options \ {"baseURL"}
               /\ \A key \in DOMAIN after.options :
                     after.options[key] = params.options[key]
               /\ DOMAIN after.body = DOMAIN params.body
               /\ \A key \in DOMAIN after.body : after.body[key] = params.body[key]
               /\ DOMAIN after.qs = DOMAIN params.qs
               /\ \A key \in DOMAIN after.qs : after.qs[key] = params.qs[key]
        /\ \A k \in 2..Len(trace) :
              /\ trace[k].transport = "httpRequestWithAuthentication"
              /\ trace[k].credential = <<"cambAiApi">>
              /\ trace[k].request.url = BASE_URL \o params.endpoint
              /\ FormSupplied =>
                    /\ trace[k].request.json = FALSE
                    /\ trace[k].request.body = params.options.formData

\* a download with a form in its options has failed and the caller has
\* called again with the same objects
C37_Witness ==
    /\ pc = "failed"
    /\ calls = 2
    /\ Len(trace) = 2
    /\ Has(params.options, "baseURL") /\ params.options.baseURL = <<>>
    /\ FormSupplied
    /\ DOMAIN params.body # {}
    /\ trace[1].transport = "httpRequest"
    /\ trace[1].request.url = <<"https://cdn.example/fg.wav">>
    /\ trace[2].transport = "httpRequestWithAuthentication"
    /\ trace[2].request.url = <<"https://client.camb.ai/apis", "https://cdn.example/fg.wav">>
    /\ Has(envelope[1].options, "formData")
    /\ ~Has(envelope[1].options, "baseURL")

-----------------------------------------------------------------------------
(* Items share no state *)

\* what a step of an item leaves behind: the events it appends to the trace of
\* the item, the records it pushes, and the locals of the item
C32_Effect(events, records, tid, env, us, bins) ==
    [events |-> events, records |-> records, taskId |-> tid, envelope |-> env,
     urls |-> us, binaries |-> bins]

\* the head of the loop for the item of index idx with the parameters p, as a
\* function of the item alone (continue-on-failure being enabled)
C32_ItemFresh(res, op, idx, p) ==
    LET invalid == ValidationError(op, p.textLength, p.descriptionLength, p.hasBinary, idx)
    IN  IF <<res, op>> \notin Handlers
        THEN C32_Effect(<<>>, <<>>, <<>>, <<>>, <<>>, <<>>)
        ELSE IF invalid # <<>>
        THEN C32_Effect(<<>>, << ErrorRecord(invalid[1], idx) >>, <<>>, <<>>, <<>>, <<>>)
        ELSE C32_Effect(<< Request("submit", SubmitCall(op)) >>, <<>>, <<>>, <<>>, <<>>, <<>>)

\* a later step of the item of index idx, as a function of the item alone:
\* of where the item is (at), its parameters p, its own requests so far (tr),
\* its locals, and the outcome of its own request in flight (none for a sleep)
C32_ItemStep(op, idx, at, p, tr, tid, env, us, bins, outcome) ==
    LET same(events, records) == C32_Effect(events, records, tid, env, us, bins)
        r == cambAiApiRequestSettle(tr[Len(tr)], outcome[1])
        failed == same(r.retried, << ErrorRecord(r.error, idx) >>)
    IN  CASE at = "sleep" ->
               same(<< Request("status", StatusCall(StatusEndpoint(op, tid[1]))) >>, <<>>)
          [] at = "submit" ->
               IF r.threw THEN failed
               ELSE IF op \in Asynchronous
               THEN C32_Effect(
                        << Request("status",
                              StatusCall(StatusEndpoint(op, r.value.task_id))) >>,
                        <<>>, << r.value.task_id >>, env, us, bins)
               ELSE IF op = "synthesize"
               THEN LET a == SynthesizeAudio(p, r.value.body)
                    IN  IF a.threw THEN same(<<>>, << ErrorRecord(a.error, idx) >>)
                        ELSE same(<<>>, << SynthesizeRecord(idx, p, a.audioBuffer) >>)
               ELSE same(<<>>, SyncRecords(op, idx, r.value))
          [] at = "poll" ->
               LET d == pollForResultStep(r)
               IN  IF d.kind = "sleep" THEN same(<< Sleep(DefaultInterval) >>, <<>>)
                   ELSE IF d.kind = "return"
                   THEN C32_Effect(
                            << Request("result", ResultCall(op, d.value.run_id)) >>,
                            <<>>, tid, << d.value >>, us, bins)
                   ELSE same(<<>>, << ErrorRecord(d.error, idx) >>)
          [] at = "fetch" ->
               IF r.threw THEN failed
               ELSE IF op \in TwoDownloads
               THEN C32_Effect(
                        << Request("download", DownloadCall(ArtifactUrls(op, r.value)[1])) >>,
                        <<>>, tid, env, ArtifactUrls(op, r.value), bins)
               ELSE same(<<>>, << AsyncRecord(op, idx, tid[1], env[1].run_id, r.value, p) >>)
          [] at = "download1" ->
               IF r.threw THEN failed
               ELSE C32_Effect(<< Request("download", DownloadCall(us[2])) >>, <<>>,
                               tid, env, us, << r.value.body >>)
          [] at = "download2" ->
               IF r.threw THEN failed
               ELSE C32_Effect(<<>>,
                        << TwoBinaryRecord(op, idx, tid[1], env[1].run_id, us, bins[1],
                                           r.value.body) >>,
                        tid, env, us, Append(bins, r.value.body))

\* C32: with continue-on-failure enabled the items share no mutable state.
\* Every step of execute starts an item or continues the one in progress.  A
\* starting item has empty locals and issues what its own parameters fix; a
\* continuing one appends to its requests, changes its locals and pushes
\* records as a function of its own parameters, its own requests so far, its
\* own locals and the outcome of its own request in flight.  The records are
\* appended under the item's index and no record pushed before is touched.
\* So neither the parameters nor the outcomes of another item reach the
\* requests or the records of the item.
C32_ItemsShareNoState ==
    [][ continueOnFail =>
          \A e \in { IF pc = "item"
                      THEN C32_ItemFresh(resource, operation, i, params')
                      ELSE C32_ItemStep(operation, i, pc, params, trace, taskId, envelope,
                                        urls, binaries,
                                        IF pc = "sleep" THEN <<>>
                                        ELSE << last'[1].outcome >>) } :
              /\ trace' = (IF pc = "item" THEN <<>> ELSE trace) \o e.events
              /\ returnData' = returnData \o e.records
              /\ \A k \in 1..Len(e.records) : e.records[k].pairedItem = [item |-> i]
              /\ taskId' = e.taskId
              /\ envelope' = e.envelope
              /\ urls' = e.urls
              /\ binaries' = e.binaries
              /\ pc # "item" => params' = params
              /\ thrown' = <<>>
              /\ pc' # "aborted" ]_vars

\* a batch of two translations with continue-on-failure: the first item has
\* failed, the second has its translation
C32_Witness ==
    /\ continueOnFail
    /\ operation = "translate"
    /\ resource = "text"
    /\ nItems = 2
    /\ pc = "done"
    /\ Len(returnData) = 2
    /\ Has(returnData[1].json, "error")
    /\ returnData[1].pairedItem = [item |-> 0]
    /\ Has(returnData[2].json, "translatedTexts")
    /\ returnData[2].json.taskId = "t2"
    /\ returnData[2].pairedItem = [item |-> 1]

====
